------------------------- MODULE OAuthProviderProofs -------------------------
(***************************************************************************)
(* Theorems about OAuthProvider.                                           *)
(*                                                                         *)
(* An action replaces the document by the result of a few operators, one   *)
(* after the other.  What an operator does to one family is stated as a    *)
(* relation between two documents (Section 1) and shown once per operator  *)
(* (Section 2); the invariant of the document follows from the relations   *)
(* alone (Sections 3 and 4), the invariant of the state from it, action    *)
(* by action (Section 5), and the theorems from that (Section 6).          *)
(***************************************************************************)
EXTENDS OAuthProvider, TLAPS

-------------------------------------------------------------------------------
(***************************************************************************)
(* 1. What may happen to a family f when document e replaces document d.   *)
(***************************************************************************)

\* Nothing, except that time passes and that an expired code or access token goes.
Same(d, e, f) ==
  /\ e.family[f].st = d.family[f].st
  /\ e.family[f].client = d.family[f].client
  /\ e.family[f].left <= d.family[f].left
  /\ e.code[f].st \in {d.code[f].st, "none"}
  /\ e.refresh[f] = d.refresh[f]
  /\ \A n \in 1..Pairs : e.access[f][n].st \in {d.access[f][n].st, "none"}

\* Its records are dropped.
Dropped(d, e, f) ==
  /\ f \in Expired(d)
  /\ e.family[f] = [d.family[f] EXCEPT !.st = "gone"]
  /\ e.code[f] = NoCode
  /\ \A n \in 1..Pairs : e.refresh[f][n] = "none" /\ e.access[f][n] = NoAccess

\* It is ended.
Ends(d, e, f) ==
  /\ e.family[f] = [d.family[f] EXCEPT !.st = IF @ = "active" THEN "revoked" ELSE @]
  /\ e.code[f].st \in {d.code[f].st, Dead(d.code[f].st)}
  /\ \A n \in 1..Pairs :
       /\ e.refresh[f][n] = Dead(d.refresh[f][n])
       /\ e.access[f][n].st = Dead(d.access[f][n].st)

-------------------------------------------------------------------------------
(***************************************************************************)
(* 2. The operators.                                                       *)
(***************************************************************************)

\* A document is a record of its five tables.
LEMMA DocumentFields ==
  ASSUME NEW d \in Document
  PROVE  /\ d.client \in ClientRecords
         /\ d.family \in FamilyRecords
         /\ d.code \in CodeRecords
         /\ d.refresh \in RefreshRecords
         /\ d.access \in AccessRecords
         /\ d = [client |-> d.client, family |-> d.family, code |-> d.code,
                 refresh |-> d.refresh, access |-> d.access]
  BY DEF Document

\* Every pair of the document has an access record.
LEMMA AccessField ==
  ASSUME NEW d \in Document, NEW f \in Families, NEW n \in 1..Pairs
  PROVE  d.access[f][n] \in AccessRecord
  <1>1. d.access \in [Families -> [1..Pairs -> AccessRecord]]
    BY DocumentFields, Zenon DEF AccessRecords
  <1>2. d.access[f] \in [1..Pairs -> AccessRecord]
    BY <1>1, Zenon
  <1>3. QED
    BY <1>2, Zenon

\* Five tables make a document.
LEMMA DocumentIntro ==
  ASSUME NEW cl \in ClientRecords, NEW fa \in FamilyRecords, NEW co \in CodeRecords,
         NEW re \in RefreshRecords, NEW ac \in AccessRecords
  PROVE  [client |-> cl, family |-> fa, code |-> co, refresh |-> re, access |-> ac]
           \in Document
  BY DEF Document

\* Collection drops what has expired and leaves the rest.
LEMMA SweptEffect ==
  ASSUME NEW d \in Document
  PROVE  /\ Swept(d) \in Document
         /\ Swept(d).client = d.client
         /\ \A f \in Families : Same(d, Swept(d), f) \/ Dropped(d, Swept(d), f)
         /\ \A f \in Expired(d) : Dropped(d, Swept(d), f)
  <1> DEFINE fa == [f \in Families |->
               IF f \in Expired(d) THEN [d.family[f] EXCEPT !.st = "gone"]
               ELSE IF d.family[f].client \in Explorers
                    THEN [d.family[f] EXCEPT !.left = Min2(@, ExplorerTTL)]
                    ELSE d.family[f]]
             co == [f \in Families |->
               IF f \in Expired(d) \/ d.code[f].left = 0 THEN NoCode ELSE d.code[f]]
             re == [f \in Families |->
               IF f \in Expired(d) THEN [n \in 1..Pairs |-> "none"] ELSE d.refresh[f]]
             ac == [f \in Families |-> [n \in 1..Pairs |->
               IF f \in Expired(d) \/ d.access[f][n].left = 0
               THEN NoAccess ELSE d.access[f][n]]]
  <1>1. Swept(d) = [client |-> d.client, family |-> fa, code |-> co,
                    refresh |-> re, access |-> ac]
    BY DEF Swept
  <1>2. fa \in FamilyRecords
    BY DocumentFields, Parameters DEF Min2, FamilyRecords
  <1>3. co \in CodeRecords
    BY DocumentFields, Parameters DEF NoCode, CodeRecords, Statuses
  <1>4. re \in RefreshRecords
    BY DocumentFields DEF RefreshRecords, Statuses
  <1>5. ac \in AccessRecords
    BY DocumentFields, Parameters DEF NoAccess, AccessRecord, AccessRecords
  <1>6. Swept(d) \in Document
    <2>1. d.client \in ClientRecords
      BY DocumentFields
    <2>2. HIDE DEF fa, co, re, ac
    <2>3. QED
      BY <1>1, <1>2, <1>3, <1>4, <1>5, <2>1, DocumentIntro
  <1>7. ASSUME NEW f \in Expired(d) PROVE Dropped(d, Swept(d), f)
    <2>1. f \in Families
      BY DEF Expired
    <2>2. QED
      BY <1>1, <2>1 DEF Dropped
  <1>8. ASSUME NEW f \in Families, f \notin Expired(d) PROVE Same(d, Swept(d), f)
    <2>1. fa[f].st = d.family[f].st /\ fa[f].client = d.family[f].client
          /\ fa[f].left <= d.family[f].left
      BY <1>8, DocumentFields, Parameters DEF FamilyRecords, Min2
    <2>2. co[f].st \in {d.code[f].st, "none"}
      BY <1>8 DEF NoCode
    <2>3. re[f] = d.refresh[f]
      BY <1>8
    <2>4. \A n \in 1..Pairs : ac[f][n].st \in {d.access[f][n].st, "none"}
      BY <1>8 DEF NoAccess
    <2>5. QED
      BY <1>1, <2>1, <2>2, <2>3, <2>4 DEF Same
  <1>9. Swept(d).client = d.client
    BY <1>1
  <1>10. QED
    BY <1>6, <1>7, <1>8, <1>9

\* A client stays registered while it is kept or named by a family.
LEMMA CollectedEffect ==
  ASSUME NEW d \in Document, NEW K
  PROVE  /\ Collected(d, K) \in Document
         /\ \A f \in Families : Same(d, Collected(d, K), f) \/ Dropped(d, Collected(d, K), f)
         /\ \A f \in Expired(d) : Dropped(d, Collected(d, K), f)
         /\ \A c \in Clients :
              \/ Collected(d, K).client[c].st = d.client[c].st
              \/ \A f \in Active(Collected(d, K)) : Collected(d, K).family[f].client # c
  <1> DEFINE s == Swept(d)
             e == Collected(d, K)
             cl == [c \in Clients |->
               IF s.client[c].st # "on" \/ s.client[c].left > 0 \/ c \in K \/ Referenced(s, c)
               THEN s.client[c] ELSE [s.client[c] EXCEPT !.st = "gone"]]
  <1>1. s \in Document /\ s.client = d.client
    BY SweptEffect
  <1>2. e = [client |-> cl, family |-> s.family, code |-> s.code,
             refresh |-> s.refresh, access |-> s.access]
    <2> HIDE DEF s
    <2>1. e = [s EXCEPT !.client = cl]
      BY DEF Collected, s
    <2>2. QED
      BY <1>1, <2>1, DocumentFields
  <1>3. cl \in ClientRecords
    <2> HIDE DEF s
    <2>1. QED
      BY <1>1, DocumentFields DEF ClientRecords
  <1>4. e \in Document
    <2> HIDE DEF s, cl, e
    <2>1. QED
      BY <1>1, <1>2, <1>3, DocumentFields, DocumentIntro
  <1>5. /\ e.client = cl
        /\ e.family = s.family
        /\ e.code = s.code
        /\ e.refresh = s.refresh
        /\ e.access = s.access
    <2> HIDE DEF s, cl, e
    <2>1. QED
      BY <1>2
  <1>6. \A f \in Families : Same(d, e, f) \/ Dropped(d, e, f)
    <2> HIDE DEF s, cl, e
    <2>1. \A f \in Families : Same(d, s, f) \/ Dropped(d, s, f)
      BY SweptEffect DEF s
    <2>2. QED
      BY <1>5, <2>1 DEF Same, Dropped
  <1>7. \A f \in Expired(d) : Dropped(d, e, f)
    <2> HIDE DEF s, cl, e
    <2>1. \A f \in Expired(d) : Dropped(d, s, f)
      BY SweptEffect DEF s
    <2>2. QED
      BY <1>5, <2>1 DEF Dropped
  <1>8. ASSUME NEW c \in Clients, NEW f \in Active(e), e.family[f].client = c
        PROVE  e.client[c].st = d.client[c].st
    <2>1. f \in Families /\ s.family[f].st = "active" /\ s.family[f].client = c
      <3> HIDE DEF s, cl, e
      <3>1. QED
        BY <1>5, <1>8 DEF Active
    <2>2. Referenced(s, c)
      <3> HIDE DEF s, cl, e
      <3>1. QED
        BY <2>1 DEF Referenced, Recorded
    <2>3. cl[c] = s.client[c]
      <3> HIDE DEF s, e
      <3>1. QED
        BY <2>2
    <2>4. QED
      <3> HIDE DEF s, cl, e
      <3>1. QED
        BY <1>1, <1>5, <2>3
  <1>9. QED
    <2> HIDE DEF s, cl
    <2>1. QED
      BY <1>4, <1>6, <1>7, <1>8

\* Ending families leaves the others alone.
LEMMA EndedEffect ==
  ASSUME NEW d \in Document, NEW S
  PROVE  /\ Ended(d, S) \in Document
         /\ \A f \in Families \cap S : Ends(d, Ended(d, S), f)
         /\ \A f \in Families \ S : Same(d, Ended(d, S), f)
         /\ Ended(d, S).client = d.client
  <1> DEFINE fa == [f \in Families |->
               IF f \in S /\ d.family[f].st = "active"
               THEN [d.family[f] EXCEPT !.st = "revoked"] ELSE d.family[f]]
             re == [f \in Families |-> [n \in 1..Pairs |->
               IF f \in S THEN Dead(d.refresh[f][n]) ELSE d.refresh[f][n]]]
             ac == [f \in Families |-> [n \in 1..Pairs |->
               IF f \in S THEN [d.access[f][n] EXCEPT !.st = Dead(@)] ELSE d.access[f][n]]]
  <1>1. Ended(d, S) = [client |-> d.client, family |-> fa, code |-> d.code,
                       refresh |-> re, access |-> ac]
    BY DEF Ended
  <1>2. fa \in FamilyRecords
    BY DocumentFields DEF FamilyRecords
  <1>3. re \in RefreshRecords
    BY DocumentFields DEF RefreshRecords, Dead, Statuses
  <1>4. ac \in AccessRecords
    <2>1. ASSUME NEW f \in Families, NEW n \in 1..Pairs PROVE ac[f][n] \in AccessRecord
      BY AccessField DEF AccessRecord, Dead
    <2>2. QED
      BY <2>1 DEF AccessRecords
  <1>5. Ended(d, S) \in Document
    <2> HIDE DEF fa, re, ac
    <2>1. QED
      BY <1>1, <1>2, <1>3, <1>4, DocumentFields, DocumentIntro
  <1>6. ASSUME NEW f \in Families \cap S PROVE Ends(d, Ended(d, S), f)
    <2>1. fa[f] = [d.family[f] EXCEPT !.st = IF @ = "active" THEN "revoked" ELSE @]
      BY DocumentFields DEF FamilyRecords
    <2>2. \A n \in 1..Pairs : re[f][n] = Dead(d.refresh[f][n])
                              /\ ac[f][n].st = Dead(d.access[f][n].st)
      <3>1. ASSUME NEW n \in 1..Pairs PROVE ac[f][n].st = Dead(d.access[f][n].st)
        BY AccessField DEF AccessRecord
      <3>2. QED
        BY <3>1
    <2>3. QED
      <3> HIDE DEF fa, re, ac
      <3>1. QED
        BY <1>1, <2>1, <2>2 DEF Ends
  <1>7. ASSUME NEW f \in Families \ S PROVE Same(d, Ended(d, S), f)
    <2>1. fa[f] = d.family[f] /\ d.family[f].left \in Nat
      BY DocumentFields DEF FamilyRecords
    <2>2. re[f] = d.refresh[f] /\ ac[f] = d.access[f]
      BY DocumentFields DEF RefreshRecords, AccessRecords
    <2>3. QED
      <3> HIDE DEF fa, re, ac
      <3>1. QED
        BY <1>1, <2>1, <2>2 DEF Same
  <1>8. Ended(d, S).client = d.client
    BY <1>1
  <1>9. QED
    BY <1>5, <1>6, <1>7, <1>8
\* The Admin process ends the codes as well.
LEMMA EndedByAdminEffect ==
  ASSUME NEW d \in Document, NEW S
  PROVE  /\ EndedByAdmin(d, S) \in Document
         /\ \A f \in Families \cap S : Ends(d, EndedByAdmin(d, S), f)
         /\ \A f \in Families \ S : Same(d, EndedByAdmin(d, S), f)
         /\ EndedByAdmin(d, S).client = d.client
  <1> DEFINE s == Ended(d, S)
             e == EndedByAdmin(d, S)
             co == [f \in Families |->
               IF f \in S THEN [d.code[f] EXCEPT !.st = Dead(@)] ELSE d.code[f]]
  <1>1. s \in Document /\ s.code = d.code /\ s.client = d.client
    BY EndedEffect DEF Ended
  <1>2. e = [client |-> s.client, family |-> s.family, code |-> co,
             refresh |-> s.refresh, access |-> s.access]
    <2>1. e = [s EXCEPT !.code = co]
      BY <1>1 DEF EndedByAdmin
    <2> HIDE DEF s, e, co
    <2>2. QED
      BY <1>1, <2>1, DocumentFields
  <1>3. co \in CodeRecords
    BY DocumentFields DEF CodeRecords, Statuses, Dead
  <1>4. \A f \in Families : co[f].st \in {d.code[f].st, Dead(d.code[f].st)}
                            /\ (f \notin S => co[f] = d.code[f])
    BY DocumentFields DEF CodeRecords
  <1>5. \A f \in Families \cap S : Ends(d, s, f)
    BY EndedEffect
  <1>6. \A f \in Families \ S : Same(d, s, f)
    BY EndedEffect
  <1> HIDE DEF s, e, co
  <1>7. e \in Document
    BY <1>1, <1>2, <1>3, DocumentFields, DocumentIntro
  <1>8. \A f \in Families \cap S : Ends(d, e, f)
    BY <1>2, <1>4, <1>5 DEF Ends
  <1>9. \A f \in Families \ S : Same(d, e, f)
    BY <1>2, <1>4, <1>6 DEF Same
  <1>10. e.client = d.client
    BY <1>1, <1>2
  <1>11. QED
    BY <1>7, <1>8, <1>9, <1>10 DEF e

\* Time leaves every status alone.
LEMMA DocLaterEffect ==
  ASSUME NEW d \in Document
  PROVE  /\ DocLater(d) \in Document
         /\ \A f \in Families : Same(d, DocLater(d), f)
         /\ \A c \in Clients : DocLater(d).client[c].st = d.client[c].st
  <1> DEFINE cl == [c \in Clients |-> [d.client[c] EXCEPT !.left = Less(@)]]
             fa == [f \in Families |-> [d.family[f] EXCEPT !.left = Less(@)]]
             co == [f \in Families |-> [d.code[f] EXCEPT !.left = Less(@)]]
             ac == [f \in Families |-> [n \in 1..Pairs |->
                     [d.access[f][n] EXCEPT !.left = Less(@)]]]
  <1>1. DocLater(d) = [client |-> cl, family |-> fa, code |-> co,
                       refresh |-> d.refresh, access |-> ac]
    BY DEF DocLater
  <1>2. cl \in ClientRecords /\ \A c \in Clients : cl[c].st = d.client[c].st
    BY DocumentFields, Parameters DEF ClientRecords, Less, Max2
  <1>3. fa \in FamilyRecords
    BY DocumentFields, Parameters DEF FamilyRecords, Less, Max2
  <1>4. co \in CodeRecords
    BY DocumentFields, Parameters DEF CodeRecords, Less, Max2
  <1>5. ac \in AccessRecords
    <2>1. ASSUME NEW f \in Families, NEW n \in 1..Pairs PROVE ac[f][n] \in AccessRecord
      BY AccessField, Parameters DEF AccessRecord, Less, Max2
    <2>2. QED
      BY <2>1 DEF AccessRecords
  <1>6. \A f \in Families : Same(d, DocLater(d), f)
    <2>1. ASSUME NEW f \in Families
          PROVE  /\ fa[f].st = d.family[f].st /\ fa[f].client = d.family[f].client
                 /\ fa[f].left <= d.family[f].left
                 /\ co[f].st = d.code[f].st
      BY DocumentFields DEF FamilyRecords, CodeRecords, Less, Max2
    <2>2. ASSUME NEW f \in Families, NEW n \in 1..Pairs
          PROVE  ac[f][n].st = d.access[f][n].st
      BY AccessField DEF AccessRecord
    <2> HIDE DEF cl, fa, co, ac
    <2>3. QED
      BY <1>1, <2>1, <2>2 DEF Same
  <1> HIDE DEF cl, fa, co, ac
  <1>7. DocLater(d) \in Document
    BY <1>1, <1>2, <1>3, <1>4, <1>5, DocumentFields, DocumentIntro
  <1>8. QED
    BY <1>1, <1>2, <1>6, <1>7

\* A new pair.
LEMMA WithPairEffect ==
  ASSUME NEW d \in Document, NEW f \in Families, NEW n \in 1..Pairs
  PROVE  LET e == WithPair(d, f, n)
         IN  /\ e \in Document
             /\ e.client = d.client /\ e.family = d.family /\ e.code = d.code
             /\ e.refresh[f][n] = "active"
             /\ \A k \in 1..Pairs \ {n} :
                  e.refresh[f][k] = d.refresh[f][k] /\ e.access[f][k] = d.access[f][k]
             /\ \A g \in Families \ {f} :
                  e.refresh[g] = d.refresh[g] /\ e.access[g] = d.access[g]
  <1> DEFINE a  == [st |-> "active", left |-> Min2(AccessTTL, d.family[f].left)]
             re == [d.refresh EXCEPT ![f][n] = "active"]
             ac == [d.access EXCEPT ![f][n] = a]
  <1>1. WithPair(d, f, n) = [client |-> d.client, family |-> d.family, code |-> d.code,
                             refresh |-> re, access |-> ac]
    BY DEF WithPair
  <1>2. re \in RefreshRecords
    BY DocumentFields DEF RefreshRecords, Statuses
  <1>3. a \in AccessRecord
    BY DocumentFields, Parameters DEF AccessRecord, FamilyRecords, Min2
  <1>4. ac \in AccessRecords
    <2> HIDE DEF a
    <2>1. QED
      BY <1>3, DocumentFields DEF AccessRecords
  <1>5. /\ re[f][n] = "active"
        /\ \A k \in 1..Pairs \ {n} : re[f][k] = d.refresh[f][k]
        /\ \A g \in Families \ {f} : re[g] = d.refresh[g]
    BY DocumentFields DEF RefreshRecords
  <1>6. /\ \A k \in 1..Pairs \ {n} : ac[f][k] = d.access[f][k]
        /\ \A g \in Families \ {f} : ac[g] = d.access[g]
    <2> HIDE DEF a
    <2>1. QED
      BY DocumentFields DEF AccessRecords
  <1> HIDE DEF re, ac
  <1>7. WithPair(d, f, n) \in Document
    BY <1>1, <1>2, <1>4, DocumentFields, DocumentIntro
  <1>8. QED
    BY <1>1, <1>5, <1>6, <1>7
\* A new family and its code.
LEMMA WithFamilyEffect ==
  ASSUME NEW d \in Document, NEW f \in Families, NEW c \in Clients
  PROVE  LET e == WithFamily(d, f, c)
         IN  /\ e \in Document
             /\ e.client = d.client /\ e.refresh = d.refresh /\ e.access = d.access
             /\ e.family[f] = [st |-> "active", client |-> c, left |-> TTL(c)]
             /\ \A g \in Families \ {f} :
                  e.family[g] = d.family[g] /\ e.code[g] = d.code[g]
  <1> DEFINE fa == [d.family EXCEPT ![f] = [st |-> "active", client |-> c, left |-> TTL(c)]]
             co == [d.code EXCEPT ![f] = [st |-> "active", left |-> CodeTTL]]
  <1>1. WithFamily(d, f, c) = [client |-> d.client, family |-> fa, code |-> co,
                               refresh |-> d.refresh, access |-> d.access]
    BY DEF WithFamily
  <1>2. TTL(c) \in 0..RefreshTTL
    BY Parameters DEF TTL
  <1>3. fa \in FamilyRecords
    BY <1>2, DocumentFields DEF FamilyRecords
  <1>4. co \in CodeRecords
    BY DocumentFields, Parameters DEF CodeRecords, Statuses
  <1>5. /\ fa[f] = [st |-> "active", client |-> c, left |-> TTL(c)]
        /\ \A g \in Families \ {f} : fa[g] = d.family[g] /\ co[g] = d.code[g]
    BY DocumentFields DEF FamilyRecords, CodeRecords
  <1> HIDE DEF fa, co
  <1>6. WithFamily(d, f, c) \in Document
    BY <1>1, <1>3, <1>4, DocumentFields, DocumentIntro
  <1>7. QED
    BY <1>1, <1>5, <1>6

\* A code or a refresh token is marked as consumed.
LEMMA CodeConsumed ==
  ASSUME NEW d \in Document, NEW f \in Families
  PROVE  LET e == [d EXCEPT !.code[f].st = "consumed"]
         IN  /\ e \in Document
             /\ e.client = d.client /\ e.family = d.family
             /\ e.refresh = d.refresh /\ e.access = d.access
             /\ e.code[f].st = "consumed"
             /\ \A g \in Families \ {f} : e.code[g] = d.code[g]
  <1> DEFINE e  == [d EXCEPT !.code[f].st = "consumed"]
             co == [d.code EXCEPT ![f].st = "consumed"]
  <1>1. e = [client |-> d.client, family |-> d.family, code |-> co,
             refresh |-> d.refresh, access |-> d.access]
    BY DocumentFields
  <1>2. co \in CodeRecords /\ co[f].st = "consumed"
        /\ \A g \in Families \ {f} : co[g] = d.code[g]
    BY DocumentFields DEF CodeRecords, Statuses
  <1> HIDE DEF e, co
  <1>3. e \in Document
    BY <1>1, <1>2, DocumentFields, DocumentIntro
  <1>4. QED
    BY <1>1, <1>2, <1>3 DEF e

\* Consuming a refresh token changes that token alone.
LEMMA RefreshConsumed ==
  ASSUME NEW d \in Document, NEW f \in Families, NEW n \in 1..Pairs
  PROVE  LET e == [d EXCEPT !.refresh[f][n] = "consumed"]
         IN  /\ e \in Document
             /\ e.client = d.client /\ e.family = d.family
             /\ e.code = d.code /\ e.access = d.access
             /\ e.refresh[f][n] = "consumed"
             /\ \A k \in 1..Pairs \ {n} : e.refresh[f][k] = d.refresh[f][k]
             /\ \A g \in Families \ {f} : e.refresh[g] = d.refresh[g]
  <1> DEFINE e  == [d EXCEPT !.refresh[f][n] = "consumed"]
             re == [d.refresh EXCEPT ![f][n] = "consumed"]
  <1>1. e = [client |-> d.client, family |-> d.family, code |-> d.code,
             refresh |-> re, access |-> d.access]
    BY DocumentFields
  <1>2. /\ re \in RefreshRecords
        /\ re[f][n] = "consumed"
        /\ \A k \in 1..Pairs \ {n} : re[f][k] = d.refresh[f][k]
        /\ \A g \in Families \ {f} : re[g] = d.refresh[g]
    BY DocumentFields DEF RefreshRecords, Statuses
  <1> HIDE DEF e, re
  <1>3. e \in Document
    BY <1>1, <1>2, DocumentFields, DocumentIntro
  <1>4. QED
    BY <1>1, <1>2, <1>3 DEF e

\* A client registers.
LEMMA Registered ==
  ASSUME NEW d \in Document, NEW c \in Clients
  PROVE  LET e == [d EXCEPT !.client[c] = [st |-> "on", left |-> UnusedTTL]]
         IN  /\ e \in Document
             /\ e.family = d.family /\ e.code = d.code
             /\ e.refresh = d.refresh /\ e.access = d.access
             /\ e.client[c].st = "on"
             /\ \A k \in Clients \ {c} : e.client[k] = d.client[k]
  <1> DEFINE e  == [d EXCEPT !.client[c] = [st |-> "on", left |-> UnusedTTL]]
             cl == [d.client EXCEPT ![c] = [st |-> "on", left |-> UnusedTTL]]
  <1>1. e = [client |-> cl, family |-> d.family, code |-> d.code,
             refresh |-> d.refresh, access |-> d.access]
    BY DocumentFields
  <1>2. /\ cl \in ClientRecords
        /\ cl[c].st = "on"
        /\ \A k \in Clients \ {c} : cl[k] = d.client[k]
    BY DocumentFields, Parameters DEF ClientRecords
  <1> HIDE DEF e, cl
  <1>3. e \in Document
    BY <1>1, <1>2, DocumentFields, DocumentIntro
  <1>4. QED
    BY <1>1, <1>2, <1>3 DEF e
-------------------------------------------------------------------------------
(***************************************************************************)
(* 3. The invariant of the document.  "a" is answered.                     *)
(***************************************************************************)

\* One family: nothing is issued before its code is redeemed, its newest refresh
\* token was never answered and nothing newer was, and an ended family is dead.
Sound(d, a, f) ==
  /\ d.family[f].st = "none" \/ d.code[f].st = "active" =>
       \A n \in 1..Pairs : d.refresh[f][n] = "none" /\ a[f][n] = 0
  /\ \A m, n \in 1..Pairs :
       d.refresh[f][m] = "active" /\ d.refresh[f][n] = "active" => m = n
  /\ \A m, n \in 1..Pairs : d.refresh[f][m] = "active" /\ m <= n => a[f][n] = 0
  /\ \A n \in 1..Pairs : a[f][n] \in {0, 1}
  /\ d.family[f].st \in {"revoked", "gone"} =>
       \A n \in 1..Pairs : d.refresh[f][n] # "active" /\ d.access[f][n].st # "active"

Good(d, a) ==
  /\ d \in Document
  /\ \A f \in Families : Sound(d, a, f)
  /\ \A f \in Active(d) :
       d.family[f].client \in Clients /\ d.client[d.family[f].client].st = "on"

\* Document e follows d; S are the families whose end is announced.
Follows(d, e, S) ==
  \A f \in Families :
    /\ d.family[f].st = "revoked" => e.family[f].st \in {"revoked", "gone"}
    /\ d.family[f].st = "gone" => e.family[f].st = "gone"
    /\ Valid(e, f) => Valid(d, f) /\ f \notin S
    /\ Recorded(d, f) => Recorded(e, f) \/ f \in S

\* What follows in two steps follows; the families each ends add up.
LEMMA FollowsTransitive ==
  ASSUME NEW d, NEW m, NEW e, NEW S, NEW T, Follows(d, m, S), Follows(m, e, T)
  PROVE  Follows(d, e, S \cup T)
  BY DEF Follows

\* A family nothing happens to stays sound.
LEMMA SoundSame ==
  ASSUME NEW d, NEW e, NEW a, NEW f, Sound(d, a, f), Same(d, e, f)
  PROVE  Sound(e, a, f)
  BY DEF Sound, Same

\* A family that is collected stays sound, and had been recorded.
LEMMA SoundDropped ==
  ASSUME NEW d \in Document, NEW e, NEW a, NEW f \in Families,
         Sound(d, a, f), Dropped(d, e, f)
  PROVE  Sound(e, a, f) /\ e.family[f].st = "gone" /\ Recorded(d, f)
  <1>1. e.family[f].st = "gone"
    BY DocumentFields DEF Dropped, FamilyRecords
  <1>2. QED
    BY <1>1 DEF Sound, Dropped, NoCode, NoAccess, Expired

\* Ending a family revokes it if it was active, and keeps its client and its time.
LEMMA EndsStatuses ==
  ASSUME NEW d \in Document, NEW e, NEW f \in Families, Ends(d, e, f)
  PROVE  /\ e.family[f].st = IF d.family[f].st = "active" THEN "revoked" ELSE d.family[f].st
         /\ e.family[f].client = d.family[f].client
         /\ e.family[f].left = d.family[f].left
         /\ \A n \in 1..Pairs : e.access[f][n].st = Dead(d.access[f][n].st)
  <1>1. /\ e.family[f].st = IF d.family[f].st = "active" THEN "revoked" ELSE d.family[f].st
        /\ e.family[f].client = d.family[f].client
        /\ e.family[f].left = d.family[f].left
    BY DocumentFields DEF Ends, FamilyRecords
  <1>2. ASSUME NEW n \in 1..Pairs PROVE e.access[f][n].st = Dead(d.access[f][n].st)
    BY DEF Ends
  <1>3. QED
    BY <1>1, <1>2

\* A family that is ended stays sound.
LEMMA SoundEnds ==
  ASSUME NEW d \in Document, NEW e, NEW a, NEW f \in Families,
         Sound(d, a, f), Ends(d, e, f)
  PROVE  Sound(e, a, f)
  <1>1. \A n \in 1..Pairs : e.refresh[f][n] = Dead(d.refresh[f][n])
    BY DEF Ends
  <1>2. d.family[f].st \in {"none", "active", "revoked", "gone"}
    BY DocumentFields DEF FamilyRecords
  <1>3. e.code[f].st = "active" => d.code[f].st = "active"
    BY DEF Ends, Dead
  <1>4. QED
    BY <1>1, <1>2, <1>3, EndsStatuses DEF Sound, Dead

-------------------------------------------------------------------------------
(***************************************************************************)
(* 4. The operators keep it.                                               *)
(***************************************************************************)

\* The collector keeps the invariant and ends only families that expired.
LEMMA CollectedGood ==
  ASSUME NEW d, NEW a, NEW K, Good(d, a)
  PROVE  Good(Collected(d, K), a) /\ Follows(d, Collected(d, K), Expired(d))
  <1> DEFINE e == Collected(d, K)
  <1>1. d \in Document
    BY DEF Good
  <1>2. /\ e \in Document
        /\ \A f \in Families : Same(d, e, f) \/ Dropped(d, e, f)
        /\ \A f \in Expired(d) : Dropped(d, e, f)
        /\ \A c \in Clients :
             \/ e.client[c].st = d.client[c].st
             \/ \A f \in Active(e) : e.family[f].client # c
    BY <1>1, CollectedEffect
  <1> HIDE DEF e
  <1>3. \A f \in Families : Sound(e, a, f)
    BY <1>1, <1>2, SoundSame, SoundDropped DEF Good
  <1>4. ASSUME NEW f \in Active(e)
        PROVE  e.family[f].client \in Clients /\ e.client[e.family[f].client].st = "on"
    <2>1. f \in Families /\ e.family[f].st = "active"
      BY DEF Active
    <2>2. Same(d, e, f)
      BY <1>1, <1>2, <2>1, SoundDropped DEF Good
    <2>3. f \in Active(d) /\ e.family[f].client = d.family[f].client
      BY <2>1, <2>2 DEF Same, Active
    <2>4. QED
      BY <1>2, <2>3 DEF Good
  <1>5. Follows(d, e, Expired(d))
    <2> SUFFICES ASSUME NEW f \in Families
                 PROVE  /\ d.family[f].st = "revoked" => e.family[f].st \in {"revoked", "gone"}
                        /\ d.family[f].st = "gone" => e.family[f].st = "gone"
                        /\ Valid(e, f) => Valid(d, f) /\ f \notin Expired(d)
                        /\ Recorded(d, f) => Recorded(e, f) \/ f \in Expired(d)
      BY DEF Follows
    <2>1. CASE Dropped(d, e, f)
      BY <1>1, <2>1, SoundDropped DEF Good, Valid, Recorded, Dropped
    <2>2. CASE Same(d, e, f) /\ ~ Dropped(d, e, f)
      <3>1. d.family[f].left \in Nat /\ e.family[f].left \in Nat
        BY <1>1, <1>2, DocumentFields, Parameters DEF FamilyRecords
      <3>2. QED
        BY <1>2, <2>2, <3>1 DEF Same, Valid, Recorded
    <2>3. QED
      BY <1>2, <2>1, <2>2
  <1>6. QED
    BY <1>2, <1>3, <1>4, <1>5 DEF Good, e

\* The steps that end some families and leave the others and the clients alone.
LEMMA EndingGood ==
  ASSUME NEW d, NEW e, NEW a, NEW S, Good(d, a), e \in Document, e.client = d.client,
         \A f \in Families \cap S : Ends(d, e, f),
         \A f \in Families \ S : Same(d, e, f)
  PROVE  Good(e, a) /\ Follows(d, e, S)
  <1>1. d \in Document
    BY DEF Good
  <1>2. \A f \in Families : Sound(e, a, f)
    BY <1>1, SoundSame, SoundEnds DEF Good
  <1>3. ASSUME NEW f \in Families
        PROVE  /\ e.family[f].st = "active" => d.family[f].st = "active" /\ f \notin S
               /\ e.family[f].client = d.family[f].client
               /\ e.family[f].left <= d.family[f].left
               /\ e.family[f].st \in {d.family[f].st, "revoked"}
               /\ d.family[f].st \notin {"active", "revoked"} => e.family[f].st = d.family[f].st
    <2>1. d.family[f].left \in Nat
      BY <1>1, DocumentFields, Parameters DEF FamilyRecords
    <2>2. CASE f \in S
      BY <1>1, <2>1, <2>2, EndsStatuses
    <2>3. CASE f \notin S
      BY <2>3 DEF Same
    <2>4. QED
      BY <2>2, <2>3
  <1>4. \A f \in Active(e) :
          e.family[f].client \in Clients /\ e.client[e.family[f].client].st = "on"
    BY <1>3 DEF Good, Active
  <1>5. ASSUME NEW f \in Families PROVE d.family[f].left \in Nat /\ e.family[f].left \in Nat
    BY <1>1, DocumentFields, Parameters DEF FamilyRecords
  <1>6. Follows(d, e, S)
    BY <1>3, <1>5 DEF Follows, Valid, Recorded
  <1>7. QED
    BY <1>2, <1>4, <1>6 DEF Good

\* The service revokes exactly the families it names.
LEMMA EndedGood ==
  ASSUME NEW d, NEW a, NEW S, Good(d, a)
  PROVE  Good(Ended(d, S), a) /\ Follows(d, Ended(d, S), S)
  BY EndedEffect, EndingGood DEF Good

\* The Admin process revokes exactly the families it names.
LEMMA EndedByAdminGood ==
  ASSUME NEW d, NEW a, NEW S, Good(d, a)
  PROVE  Good(EndedByAdmin(d, S), a) /\ Follows(d, EndedByAdmin(d, S), S)
  BY EndedByAdminEffect, EndingGood DEF Good

\* The passing of time keeps the invariant and ends nothing by itself.
LEMMA LaterGood ==
  ASSUME NEW d, NEW a, Good(d, a)
  PROVE  Good(DocLater(d), a) /\ Follows(d, DocLater(d), {})
  <1> DEFINE e == DocLater(d)
  <1>1. /\ d \in Document /\ e \in Document
        /\ \A f \in Families : Same(d, e, f)
        /\ \A c \in Clients : e.client[c].st = d.client[c].st
    BY DocLaterEffect DEF Good
  <1> HIDE DEF e
  <1>2. \A f \in Families : Sound(e, a, f)
    BY <1>1, SoundSame DEF Good
  <1>3. \A f \in Active(e) :
          e.family[f].client \in Clients /\ e.client[e.family[f].client].st = "on"
    BY <1>1 DEF Good, Active, Same
  <1>4. ASSUME NEW f \in Families PROVE d.family[f].left \in Nat /\ e.family[f].left \in Nat
    BY <1>1, DocumentFields, Parameters DEF FamilyRecords
  <1>5. Follows(d, e, {})
    BY <1>1, <1>4 DEF Follows, Same, Valid, Recorded
  <1>6. QED
    BY <1>1, <1>2, <1>3, <1>5 DEF Good, e

\* Registering a client keeps the invariant.
LEMMA RegisteredGood ==
  ASSUME NEW d, NEW a, NEW c \in Clients, Good(d, a)
  PROVE  LET e == [d EXCEPT !.client[c] = [st |-> "on", left |-> UnusedTTL]]
         IN  Good(e, a) /\ Follows(d, e, {})
  <1> DEFINE e == [d EXCEPT !.client[c] = [st |-> "on", left |-> UnusedTTL]]
  <1>1. /\ e \in Document
        /\ e.family = d.family /\ e.code = d.code
        /\ e.refresh = d.refresh /\ e.access = d.access
        /\ e.client[c].st = "on"
        /\ \A k \in Clients \ {c} : e.client[k] = d.client[k]
    BY Registered DEF Good
  <1> HIDE DEF e
  <1>2. Good(e, a)
    BY <1>1 DEF Good, Sound, Active
  <1>3. Follows(d, e, {})
    BY <1>1 DEF Follows, Valid, Recorded
  <1>4. QED
    BY <1>2, <1>3 DEF e

\* An approval adds a sound family of a registered client.
LEMMA FamilyGood ==
  ASSUME NEW d, NEW a, NEW c \in Clients, NEW f \in Families, Good(d, a),
         d.family[f].st = "none", d.client[c].st = "on"
  PROVE  LET e == WithFamily(d, f, c)
         IN  /\ Good(e, a)
             /\ e.family[f].st = "active"
             /\ \A g \in Families \ {f} : e.family[g] = d.family[g]
  <1> DEFINE e == WithFamily(d, f, c)
  <1>1. /\ e \in Document
        /\ e.client = d.client /\ e.refresh = d.refresh /\ e.access = d.access
        /\ e.family[f] = [st |-> "active", client |-> c, left |-> TTL(c)]
        /\ \A g \in Families \ {f} : e.family[g] = d.family[g] /\ e.code[g] = d.code[g]
    BY WithFamilyEffect DEF Good
  <1> HIDE DEF e
  <1>2. \A g \in Families : Sound(e, a, g)
    <2>1. ASSUME NEW g \in Families \ {f} PROVE Sound(e, a, g)
      <3>1. Sound(d, a, g)
        BY DEF Good
      <3>2. QED
        BY <1>1, <3>1 DEF Sound
    <2>2. Sound(e, a, f)
      <3>1. Sound(d, a, f)
        BY DEF Good
      <3>2. e.family[f].st = "active"
        BY <1>1
      <3>3. QED
        BY <1>1, <3>1, <3>2 DEF Sound
    <2>3. QED
      BY <2>1, <2>2
  <1>3. \A g \in Active(e) :
          e.family[g].client \in Clients /\ e.client[e.family[g].client].st = "on"
    BY <1>1 DEF Good, Active
  <1>4. QED
    BY <1>1, <1>2, <1>3 DEF Good, e

\* The first pair replaces the code.
LEMMA RedeemGood ==
  ASSUME NEW d, NEW a, NEW f \in Families, Good(d, a), Redeemable(d, f)
  PROVE  LET e == WithPair([d EXCEPT !.code[f].st = "consumed"], f, 1)
         IN  Good(e, a) /\ Follows(d, e, {})
  <1> DEFINE m == [d EXCEPT !.code[f].st = "consumed"]
             e == WithPair(m, f, 1)
  <1>1. 1 \in 1..Pairs
    BY Parameters
  <1>2. /\ m \in Document
        /\ m.client = d.client /\ m.family = d.family
        /\ m.refresh = d.refresh /\ m.access = d.access
        /\ m.code[f].st = "consumed"
        /\ \A g \in Families \ {f} : m.code[g] = d.code[g]
    BY CodeConsumed DEF Good
  <1> HIDE DEF m
  <1>3. /\ e \in Document
        /\ e.client = m.client /\ e.family = m.family /\ e.code = m.code
        /\ e.refresh[f][1] = "active"
        /\ \A k \in 1..Pairs \ {1} : e.refresh[f][k] = m.refresh[f][k]
        /\ \A g \in Families \ {f} : e.refresh[g] = m.refresh[g] /\ e.access[g] = m.access[g]
    BY <1>1, <1>2, WithPairEffect
  <1> HIDE DEF e
  <1>4. \A g \in Families : Sound(e, a, g)
    <2>1. ASSUME NEW g \in Families \ {f} PROVE Sound(e, a, g)
      <3>1. Sound(d, a, g)
        BY DEF Good
      <3>2. QED
        BY <1>2, <1>3, <3>1 DEF Sound
    <2>2. Sound(e, a, f)
      <3>1. Sound(d, a, f)
        BY DEF Good
      <3>2. d.code[f].st = "active" /\ d.family[f].st = "active"
        BY DEF Redeemable, Valid
      <3>3. QED
        BY <1>1, <1>2, <1>3, <3>1, <3>2 DEF Sound
    <2>3. QED
      BY <2>1, <2>2
  <1>5. Good(e, a)
    BY <1>2, <1>3, <1>4 DEF Good, Active
  <1>6. Follows(d, e, {})
    BY <1>2, <1>3 DEF Follows, Valid, Recorded
  <1>7. QED
    BY <1>5, <1>6 DEF e, m

\* The next pair replaces the newest.
LEMMA RotateGood ==
  ASSUME NEW d, NEW a \in [Families -> [1..Pairs -> Nat]],
         NEW f \in Families, NEW n \in 1..Pairs, Good(d, a),
         d.refresh[f][n] = "active", Valid(d, f), n < Pairs
  PROVE  LET e == WithPair([d EXCEPT !.refresh[f][n] = "consumed"], f, n + 1)
         IN  Good(e, [a EXCEPT ![f][n] = @ + 1]) /\ Follows(d, e, {})
  <1> DEFINE m == [d EXCEPT !.refresh[f][n] = "consumed"]
             e == WithPair(m, f, n + 1)
             b == [a EXCEPT ![f][n] = @ + 1]
  <1>1. n + 1 \in 1..Pairs
    BY Parameters
  <1>2. /\ m \in Document
        /\ m.client = d.client /\ m.family = d.family
        /\ m.code = d.code /\ m.access = d.access
        /\ m.refresh[f][n] = "consumed"
        /\ \A k \in 1..Pairs \ {n} : m.refresh[f][k] = d.refresh[f][k]
        /\ \A g \in Families \ {f} : m.refresh[g] = d.refresh[g]
    BY RefreshConsumed DEF Good
  <1> HIDE DEF m
  <1>3. /\ e \in Document
        /\ e.client = m.client /\ e.family = m.family /\ e.code = m.code
        /\ e.refresh[f][n + 1] = "active"
        /\ \A k \in 1..Pairs \ {n + 1} : e.refresh[f][k] = m.refresh[f][k]
        /\ \A g \in Families \ {f} : e.refresh[g] = m.refresh[g] /\ e.access[g] = m.access[g]
    BY <1>1, <1>2, WithPairEffect
  <1>4. /\ b[f][n] = a[f][n] + 1
        /\ \A k \in 1..Pairs \ {n} : b[f][k] = a[f][k]
        /\ \A g \in Families \ {f} : b[g] = a[g]
    OBVIOUS
  <1> HIDE DEF e, b
  <1>5. \A g \in Families : Sound(e, b, g)
    <2>1. ASSUME NEW g \in Families \ {f} PROVE Sound(e, b, g)
      <3>1. Sound(d, a, g)
        BY DEF Good
      <3>2. QED
        <4>1. /\ e.family[g] = d.family[g] /\ e.code[g] = d.code[g]
              /\ e.refresh[g] = d.refresh[g] /\ e.access[g] = d.access[g]
              /\ b[g] = a[g]
          BY <1>2, <1>3, <1>4
        <4>2. QED
          BY <3>1, <4>1 DEF Sound
    <2>2. Sound(e, b, f)
      <3>1. Sound(d, a, f)
        BY DEF Good
      <3>2. e.family[f].st = "active" /\ e.code[f].st # "active"
        BY <1>2, <1>3, <3>1 DEF Sound, Valid
      <3>3. \A k \in 1..Pairs : e.refresh[f][k] = "active" <=> k = n + 1
        BY <1>1, <1>2, <1>3, <3>1 DEF Sound
      <3>4. \A k \in 1..Pairs : n <= k => a[f][k] = 0
        BY <3>1 DEF Sound
      <3>5. \A k \in 1..Pairs : b[f][k] \in {0, 1}
        BY <1>4, <3>1, <3>4 DEF Sound
      <3>6. \A k \in 1..Pairs : n + 1 <= k => b[f][k] = 0
        BY <1>4, <3>4
      <3>7. QED
        BY <3>2, <3>3, <3>5, <3>6 DEF Sound
    <2>3. QED
      BY <2>1, <2>2
  <1>6. Good(e, b)
    BY <1>2, <1>3, <1>5 DEF Good, Active
  <1>7. Follows(d, e, {})
    BY <1>2, <1>3 DEF Follows, Valid, Recorded
  <1>8. QED
    BY <1>6, <1>7 DEF e, m, b
-------------------------------------------------------------------------------
(***************************************************************************)
(* 5. The invariant of the state, and the steps.                           *)
(***************************************************************************)

EndedStays(d, e) ==
  \A f \in Families :
    /\ d.family[f].st = "revoked" => e.family[f].st \in {"revoked", "gone"}
    /\ d.family[f].st = "gone" => e.family[f].st = "gone"

\* The families the Admin process has still to queue have ended.
TodoEnded == \A f \in todo : doc.family[f].st \in {"revoked", "gone"}

Inv ==
  /\ TypeOK
  /\ Good(doc, answered)
  /\ TodoEnded
  /\ ReplayEndsFamily
  /\ LiveGrantKeepsToken
  /\ NoTokenLeftBehind

\* Queueing tokens keeps the type of the token store.
LEMMA QueueType ==
  ASSUME TypeOK, NEW S
  PROVE  Queue(S) \in [Families -> {"none", "stored", "queued"}]
  BY DEF TypeOK, Queue

\* Every family has one of four statuses and a natural number of time left.
LEMMA FamilyStatus ==
  ASSUME NEW d \in Document, NEW f \in Families
  PROVE  /\ d.family[f].st \in {"none", "active", "revoked", "gone"}
         /\ d.family[f].left \in Nat
  BY DocumentFields, Parameters DEF FamilyRecords

\* A mutation that announces every end it causes, whatever fails in it.
LEMMA MutationStep ==
  ASSUME Inv, NEW D, NEW S \in SUBSET Families, Follows(doc, D, S), Mutation(D, S),
         orphaned' = orphaned
  PROVE  /\ doc' \in {doc, D}
         /\ token' \in [Families -> {"none", "stored", "queued"}]
         /\ faults' \in 0..MaxFaults
         /\ unsaved' \subseteq Families /\ unheard' \subseteq Families
         /\ EndedStays(doc, doc')
         /\ LiveGrantKeepsToken' /\ NoTokenLeftBehind'
  <1>1. PICK saved \in BOOLEAN, heard \in BOOLEAN :
          /\ (saved /\ heard) \/ faults < MaxFaults
          /\ faults' = IF saved /\ heard THEN faults ELSE faults + 1
          /\ doc' = IF saved THEN D ELSE doc
          /\ token' = IF heard THEN Queue(S) ELSE token
          /\ unsaved' = IF heard /\ ~ saved THEN unsaved \cup S ELSE unsaved
          /\ unheard' = IF saved /\ ~ heard THEN unheard \cup S ELSE unheard
    BY DEF Mutation
  <1>2. doc' \in {doc, D}
    BY <1>1
  <1>3. token' \in [Families -> {"none", "stored", "queued"}]
    BY <1>1, QueueType DEF Inv, TypeOK
  <1>4. faults' \in 0..MaxFaults
    BY <1>1, Parameters DEF Inv, TypeOK
  <1>5. unsaved' \subseteq Families /\ unheard' \subseteq Families
    BY <1>1 DEF Inv, TypeOK
  <1>6. EndedStays(doc, doc')
    BY <1>2 DEF EndedStays, Follows
  <1>7. \A f \in Families : /\ Queue(S)[f] = IF f \in S /\ token[f] = "stored" THEN "queued" ELSE token[f]
    BY DEF Queue
  <1>8. ASSUME NEW f \in Families, Valid(doc', f), f \notin unsaved'
        PROVE  token'[f] = "stored"
    <2>1. Valid(doc, f) /\ f \notin unsaved /\ (doc' = D => f \notin S)
      BY <1>1, <1>8 DEF Follows
    <2>2. token[f] = "stored"
      BY <2>1 DEF Inv, LiveGrantKeepsToken
    <2>3. CASE saved
      BY <1>1, <1>7, <2>1, <2>2, <2>3
    <2>4. CASE ~ saved
      BY <1>1, <1>7, <1>8, <2>2, <2>4
    <2>5. QED
      BY <2>3, <2>4
  <1>9. ASSUME NEW f \in Families, token'[f] = "stored", f \notin orphaned' \cup unheard'
        PROVE  Recorded(doc', f)
    <2>1. token[f] = "stored" /\ (heard => f \notin S)
      BY <1>1, <1>7, <1>9
    <2>2. f \notin orphaned \cup unheard /\ (saved /\ ~ heard => f \notin S)
      BY <1>1, <1>9
    <2>3. Recorded(doc, f)
      BY <2>1, <2>2 DEF Inv, NoTokenLeftBehind
    <2>4. QED
      BY <1>1, <2>1, <2>2, <2>3 DEF Follows
  <1>10. QED
    BY <1>2, <1>3, <1>4, <1>5, <1>6, <1>8, <1>9
    DEF LiveGrantKeepsToken, NoTokenLeftBehind

\* What is left of the invariant when a step adds nobody to todo and replayed.
LEMMA QuietStep ==
  ASSUME Inv, EndedStays(doc, doc'), todo' \subseteq todo, replayed' = replayed
  PROVE  TodoEnded' /\ ReplayEndsFamily'
  BY DEF Inv, TypeOK, EndedStays, TodoEnded, ReplayEndsFamily

\* The documents that mutations prepare.
LEMMA NowGood ==
  ASSUME Inv
  PROVE  /\ Good(Now, answered) /\ Follows(doc, Now, Expired(doc))
         /\ Expired(doc) \in SUBSET Families
         /\ \A f \in Families :
              /\ Good(Ended(Now, {f}), answered)
              /\ Follows(doc, Ended(Now, {f}), Expired(doc) \cup {f})
              /\ Expired(doc) \cup {f} \in SUBSET Families
              /\ Redeemable(Now, f) =>
                   LET e == WithPair([Now EXCEPT !.code[f].st = "consumed"], f, 1)
                   IN  Good(e, answered) /\ Follows(doc, e, Expired(doc))
         /\ \A c \in Clients :
              LET e == [Now EXCEPT !.client[c] = [st |-> "on", left |-> UnusedTTL]]
              IN  Good(e, answered) /\ Follows(doc, e, Expired(doc))
  <1>1. Good(Now, answered) /\ Follows(doc, Now, Expired(doc))
    BY CollectedGood DEF Inv, Now
  <1>2. Expired(doc) \in SUBSET Families
    BY DEF Expired
  <1>3. ASSUME NEW e, Follows(Now, e, {}) PROVE Follows(doc, e, Expired(doc))
    <2>1. Follows(doc, e, Expired(doc) \cup {})
      BY <1>1, <1>3, FollowsTransitive
    <2>2. Expired(doc) \cup {} = Expired(doc)
      OBVIOUS
    <2>3. QED
      BY <2>1, <2>2
  <1>4. ASSUME NEW f \in Families
        PROVE  /\ Good(Ended(Now, {f}), answered)
               /\ Follows(doc, Ended(Now, {f}), Expired(doc) \cup {f})
    BY <1>1, EndedGood, FollowsTransitive
  <1>5. ASSUME NEW f \in Families, Redeemable(Now, f)
        PROVE  LET e == WithPair([Now EXCEPT !.code[f].st = "consumed"], f, 1)
               IN  Good(e, answered) /\ Follows(doc, e, Expired(doc))
    BY <1>1, <1>3, <1>5, RedeemGood
  <1>6. ASSUME NEW c \in Clients
        PROVE  LET e == [Now EXCEPT !.client[c] = [st |-> "on", left |-> UnusedTTL]]
               IN  Good(e, answered) /\ Follows(doc, e, Expired(doc))
    BY <1>1, <1>3, RegisteredGood
  <1>7. QED
    BY <1>1, <1>2, <1>4, <1>5, <1>6
\* A mutation that leaves the history of answers and replays alone keeps the
\* invariant.
LEMMA PlainMutation ==
  ASSUME Inv, NEW D, NEW S \in SUBSET Families,
         Good(D, answered), Follows(doc, D, S), Mutation(D, S),
         UNCHANGED <<todo, answered, replayed, orphaned>>,
         loaded' \subseteq Families \X (1..Pairs),
         consent' \in [Clients -> 0..ConsentTTL]
  PROVE  Inv' /\ EndedStays(doc, doc')
  <1>1. /\ doc' \in {doc, D} /\ EndedStays(doc, doc')
        /\ token' \in [Families -> {"none", "stored", "queued"}]
        /\ faults' \in 0..MaxFaults
        /\ unsaved' \subseteq Families /\ unheard' \subseteq Families
        /\ LiveGrantKeepsToken' /\ NoTokenLeftBehind'
    BY MutationStep
  <1>2. Good(doc', answered')
    BY <1>1 DEF Inv
  <1>3. TodoEnded' /\ ReplayEndsFamily'
    BY <1>1, QuietStep
  <1>4. doc' \in Document
    BY <1>2 DEF Good
  <1>5. TypeOK'
    BY <1>1, <1>4 DEF Inv, TypeOK
  <1>6. QED
    BY <1>1, <1>2, <1>3, <1>5 DEF Inv

\* An operation that raises changes the document not at all.
LEMMA RaisesStep ==
  ASSUME Inv, Raises, UNCHANGED <<consent, loaded, todo, answered, replayed, orphaned>>
  PROVE  Inv' /\ EndedStays(doc, doc')
  <1>1. token' = Queue(Expired(doc)) /\ UNCHANGED <<doc, faults, unsaved, unheard>>
    BY DEF Raises
  <1>2. EndedStays(doc, doc')
    BY <1>1 DEF EndedStays
  <1>3. TypeOK'
    BY <1>1, QueueType DEF Inv, TypeOK
  <1>4. \A f \in Families :
          token'[f] = IF f \in Expired(doc) /\ token[f] = "stored" THEN "queued" ELSE token[f]
    BY <1>1 DEF Queue
  <1>5. LiveGrantKeepsToken'
    BY <1>1, <1>4 DEF Inv, LiveGrantKeepsToken, Valid, Expired
  <1>6. NoTokenLeftBehind'
    BY <1>1, <1>4 DEF Inv, NoTokenLeftBehind, Recorded
  <1>7. TodoEnded' /\ ReplayEndsFamily'
    BY <1>2, QuietStep
  <1>8. QED
    BY <1>1, <1>2, <1>3, <1>5, <1>6, <1>7 DEF Inv

\* A new family is nobody's successor.
LEMMA ApproveStep ==
  ASSUME Inv, NEW c \in Clients, NEW f \in Families, Approve(c, f)
  PROVE  Inv' /\ EndedStays(doc, doc')
  <1> DEFINE d == Collected(doc, {c})
  <1>1. doc \in Document /\ Good(doc, answered)
    BY DEF Inv, Good
  <1>2. Good(d, answered) /\ Follows(doc, d, Expired(doc))
    BY <1>1, CollectedGood
  <1>3. d.family[f].st = "none"
    <2>1. doc.family[f].st = "none"
      BY DEF Approve
    <2>2. Same(doc, d, f) \/ Dropped(doc, d, f)
      BY <1>1, CollectedEffect
    <2>3. ~ Dropped(doc, d, f)
      BY <2>1 DEF Dropped, Expired, Recorded
    <2>4. QED
      BY <2>1, <2>2, <2>3 DEF Same
  <1>4. /\ d.client[c].st = "on"
        /\ doc' = WithFamily(d, f, c)
        /\ token' = [Queue(Expired(doc)) EXCEPT ![f] = "stored"]
        /\ consent' = [consent EXCEPT ![c] = 0]
        /\ UNCHANGED <<loaded, todo, faults, ghosts>>
        /\ doc.family[f].st = "none"
    BY DEF Approve, Admits
  <1> HIDE DEF d
  <1>5. /\ Good(doc', answered)
        /\ doc'.family[f].st = "active"
        /\ \A g \in Families \ {f} : doc'.family[g] = d.family[g]
    BY <1>2, <1>3, <1>4, FamilyGood
  <1>6. EndedStays(doc, doc')
    BY <1>2, <1>4, <1>5 DEF EndedStays, Follows
  <1>7. TypeOK'
    <2>1. token' \in [Families -> {"none", "stored", "queued"}]
      BY <1>4, QueueType DEF Inv
    <2>2. consent' \in [Clients -> 0..ConsentTTL]
      BY <1>4, Parameters DEF Inv, TypeOK
    <2>3. doc' \in Document
      BY <1>5 DEF Good
    <2>4. QED
      BY <1>4, <2>1, <2>2, <2>3 DEF Inv, TypeOK, ghosts
  <1>8. /\ token'[f] = "stored"
        /\ \A g \in Families \ {f} :
             token'[g] = IF g \in Expired(doc) /\ token[g] = "stored" THEN "queued" ELSE token[g]
    BY <1>4 DEF Queue
  <1>9. ASSUME NEW g \in Families, Valid(doc', g), g \notin unsaved', g # f
        PROVE  token'[g] = "stored"
    <2>1. Valid(d, g)
      BY <1>5, <1>9 DEF Valid
    <2>2. Valid(doc, g) /\ g \notin Expired(doc) /\ g \notin unsaved
      BY <1>2, <1>4, <1>9, <2>1 DEF Follows, ghosts
    <2>3. QED
      BY <1>8, <1>9, <2>2 DEF Inv, LiveGrantKeepsToken
  <1>10. ASSUME NEW g \in Families, token'[g] = "stored", g \notin orphaned' \cup unheard', g # f
         PROVE  Recorded(doc', g)
    <2>1. token[g] = "stored" /\ g \notin Expired(doc)
      BY <1>8, <1>10
    <2>2. Recorded(doc, g)
      BY <1>4, <1>10, <2>1 DEF Inv, NoTokenLeftBehind, ghosts
    <2>3. Recorded(d, g)
      BY <1>2, <2>1, <2>2 DEF Follows
    <2>4. QED
      BY <1>5, <1>10, <2>3 DEF Recorded
  <1>11. LiveGrantKeepsToken'
    BY <1>8, <1>9 DEF LiveGrantKeepsToken
  <1>12. NoTokenLeftBehind'
    BY <1>5, <1>10 DEF NoTokenLeftBehind, Recorded
  <1>13. TodoEnded' /\ ReplayEndsFamily'
    BY <1>4, <1>6, QuietStep DEF ghosts
  <1>14. Good(doc', answered')
    BY <1>4, <1>5 DEF ghosts
  <1>15. QED
    BY <1>6, <1>7, <1>11, <1>12, <1>13, <1>14 DEF Inv

\* Steps that change neither the document nor its history.
LEMMA AsideStep ==
  ASSUME Inv, UNCHANGED <<doc, answered, replayed, unsaved, unheard>>, todo' \subseteq todo,
         TypeOK', LiveGrantKeepsToken', NoTokenLeftBehind'
  PROVE  Inv' /\ EndedStays(doc, doc')
  <1>1. EndedStays(doc, doc')
    BY DEF EndedStays
  <1>2. TodoEnded' /\ ReplayEndsFamily'
    BY <1>1, QuietStep
  <1>3. QED
    BY <1>1, <1>2 DEF Inv
\* What the Admin process ends it queues later.
LEMMA AdminRevokeStep ==
  ASSUME Inv, NEW S \in SUBSET Families, AdminRevoke(S)
  PROVE  Inv' /\ EndedStays(doc, doc')
  <1>1. /\ \A f \in S : Recorded(doc, f)
        /\ doc' = EndedByAdmin(doc, S)
        /\ todo' = todo \cup S
        /\ UNCHANGED <<token, consent, loaded, faults, ghosts>>
    BY DEF AdminRevoke
  <1>2. doc \in Document /\ Good(doc, answered)
    BY DEF Inv, Good
  <1>3. Good(doc', answered) /\ Follows(doc, doc', S)
    BY <1>1, <1>2, EndedByAdminGood
  <1>4. EndedStays(doc, doc')
    BY <1>3 DEF EndedStays, Follows
  <1>5. ASSUME NEW f \in S PROVE doc'.family[f].st = "revoked"
    <2>1. Ends(doc, doc', f)
      BY <1>1, <1>2, EndedByAdminEffect
    <2>2. QED
      BY <1>1, <1>2, <2>1, EndsStatuses DEF Recorded
  <1>6. TypeOK'
    <2>1. doc' \in Document
      BY <1>3 DEF Good
    <2>2. QED
      BY <1>1, <2>1 DEF Inv, TypeOK, ghosts
  <1>7. LiveGrantKeepsToken'
    BY <1>1, <1>3 DEF Inv, LiveGrantKeepsToken, Follows, ghosts
  <1>8. NoTokenLeftBehind'
    BY <1>1, <1>3, <1>5 DEF Inv, NoTokenLeftBehind, Follows, Recorded, ghosts
  <1>9. TodoEnded'
    BY <1>1, <1>4, <1>5 DEF Inv, TypeOK, TodoEnded, EndedStays
  <1>10. ReplayEndsFamily'
    BY <1>1, <1>4 DEF Inv, ReplayEndsFamily, EndedStays, ghosts
  <1>11. QED
    BY <1>1, <1>3, <1>4, <1>6, <1>7, <1>8, <1>9, <1>10 DEF Inv, ghosts

\* The counter of answers stays a natural number when it is raised.
LEMMA OneMoreAnswer ==
  ASSUME answered \in [Families -> [1..Pairs -> Nat]],
         NEW f \in Families, NEW n \in 1..Pairs
  PROVE  answered[f][n] + 1 \in Nat
  <1>1. answered[f] \in [1..Pairs -> Nat]
    BY Zenon
  <1>2. answered[f][n] \in Nat
    BY <1>1, Zenon
  <1> DEFINE k == answered[f][n]
  <1> HIDE DEF k
  <1>3. k \in Nat => k + 1 \in Nat
    OBVIOUS
  <1>4. QED
    BY <1>2, <1>3 DEF k

\* A rotation keeps the invariant, whether or not it is written.
LEMMA RotateStep ==
  ASSUME Inv, NEW f \in Families, NEW n \in 1..Pairs, Rotate(f, n)
  PROVE  Inv' /\ EndedStays(doc, doc')
  <1> DEFINE D == WithPair([Now EXCEPT !.refresh[f][n] = "consumed"], f, n + 1)
             more == [answered EXCEPT ![f][n] = @ + 1]
  <1>1. /\ Now.refresh[f][n] = "active" /\ Valid(Now, f) /\ n < Pairs
        /\ Mutation(D, Expired(doc))
        /\ answered' = IF doc' = D THEN more ELSE answered
        /\ UNCHANGED <<consent, loaded, todo, replayed, orphaned>>
    BY DEF Rotate
  <1>2. answered \in [Families -> [1..Pairs -> Nat]]
    BY DEF Inv, TypeOK
  <1>3. Good(D, more) /\ Follows(Now, D, {})
    BY <1>1, <1>2, NowGood, RotateGood
  <1>4. more \in [Families -> [1..Pairs -> Nat]]
    <2>1. answered[f][n] + 1 \in Nat
      BY <1>2, OneMoreAnswer
    <2>2. [answered EXCEPT ![f][n] = answered[f][n] + 1] \in [Families -> [1..Pairs -> Nat]]
      <3> DEFINE k == answered[f][n] + 1
      <3> HIDE DEF k
      <3>1. k \in Nat => [answered EXCEPT ![f][n] = k] \in [Families -> [1..Pairs -> Nat]]
        BY <1>2
      <3>2. QED
        BY <2>1, <3>1 DEF k
    <2>3. QED
      BY <2>2
  <1> HIDE DEF D, more
  <1>5. Follows(doc, D, Expired(doc))
    <2>1. Follows(doc, D, Expired(doc) \cup {})
      BY <1>3, NowGood, FollowsTransitive
    <2>2. Expired(doc) \cup {} = Expired(doc)
      OBVIOUS
    <2>3. QED
      BY <2>1, <2>2
  <1>6. /\ doc' \in {doc, D} /\ EndedStays(doc, doc')
        /\ token' \in [Families -> {"none", "stored", "queued"}]
        /\ faults' \in 0..MaxFaults
        /\ unsaved' \subseteq Families /\ unheard' \subseteq Families
        /\ LiveGrantKeepsToken' /\ NoTokenLeftBehind'
    BY <1>1, <1>5, NowGood, MutationStep
  <1>7. Good(doc', answered')
    BY <1>1, <1>3, <1>6 DEF Inv
  <1>8. TodoEnded' /\ ReplayEndsFamily'
    BY <1>1, <1>6, QuietStep
  <1>9. TypeOK'
    <2>1. doc' \in Document
      BY <1>7 DEF Good
    <2>2. answered' \in [Families -> [1..Pairs -> Nat]]
      BY <1>1, <1>2, <1>4
    <2>3. QED
      BY <1>1, <1>6, <2>1, <2>2 DEF Inv, TypeOK
  <1>10. QED
    BY <1>6, <1>7, <1>8, <1>9 DEF Inv

\* A second use of a refresh token keeps the invariant.
LEMMA RotateAgainStep ==
  ASSUME Inv, NEW f \in Families, NEW n \in 1..Pairs, RotateAgain(f, n)
  PROVE  Inv' /\ EndedStays(doc, doc')
  <1> DEFINE D == Ended(Now, {f})
  <1>1. /\ Mutation(D, Expired(doc) \cup {f})
        /\ replayed' = IF doc' = D /\ Now.refresh[f][n] = "consumed"
                       THEN replayed \cup {<<f, n>>} ELSE replayed
        /\ UNCHANGED <<consent, loaded, todo, answered, orphaned>>
    BY DEF RotateAgain
  <1>2. /\ Good(D, answered) /\ Follows(doc, D, Expired(doc) \cup {f})
        /\ Expired(doc) \cup {f} \in SUBSET Families
    BY NowGood
  <1>3. /\ doc' \in {doc, D} /\ EndedStays(doc, doc')
        /\ token' \in [Families -> {"none", "stored", "queued"}]
        /\ faults' \in 0..MaxFaults
        /\ unsaved' \subseteq Families /\ unheard' \subseteq Families
        /\ LiveGrantKeepsToken' /\ NoTokenLeftBehind'
    <2> HIDE DEF D
    <2>1. QED
      BY <1>1, <1>2, MutationStep
  <1>4. Good(doc', answered')
    BY <1>1, <1>2, <1>3 DEF Inv
  <1>5. ASSUME Now.refresh[f][n] = "consumed"
        PROVE  D.family[f].st \in {"revoked", "gone"}
    <2>1. Now \in Document /\ Sound(Now, answered, f)
      BY NowGood DEF Good
    <2>2. Now.family[f].st \in {"active", "revoked", "gone"}
      BY <1>5, <2>1, FamilyStatus DEF Sound
    <2>3. Ends(Now, D, f)
      BY <2>1, EndedEffect
    <2>4. QED
      BY <2>1, <2>2, <2>3, EndsStatuses
  <1> HIDE DEF D
  <1>6. ReplayEndsFamily'
    BY <1>1, <1>3, <1>5 DEF Inv, ReplayEndsFamily, EndedStays
  <1>7. TodoEnded'
    BY <1>1, <1>3 DEF Inv, TypeOK, TodoEnded, EndedStays
  <1>8. TypeOK'
    <2>1. doc' \in Document
      BY <1>4 DEF Good
    <2>2. QED
      BY <1>1, <1>3, <2>1 DEF Inv, TypeOK
  <1>9. QED
    BY <1>3, <1>4, <1>6, <1>7, <1>8 DEF Inv

\* Every step keeps the invariant, and what has ended stays ended.
LEMMA StepInv == Inv /\ [Next]_vars => Inv' /\ EndedStays(doc, doc')
  <1> SUFFICES ASSUME Inv, [Next]_vars PROVE Inv' /\ EndedStays(doc, doc')
    OBVIOUS
  <1>1. CASE Tick
    <2>1. doc' = DocLater(doc) /\ UNCHANGED <<token, loaded, todo, faults, ghosts>>
      BY <1>1 DEF Tick
    <2>2. Good(doc', answered) /\ Follows(doc, doc', {})
      BY <2>1, LaterGood DEF Inv
    <2>3. EndedStays(doc, doc')
      BY <2>2 DEF EndedStays, Follows
    <2>4. consent' \in [Clients -> 0..ConsentTTL]
      BY <1>1, Parameters DEF Tick, Inv, TypeOK, Less, Max2
    <2>5. TypeOK'
      BY <2>1, <2>2, <2>4 DEF Inv, TypeOK, Good, ghosts
    <2>6. LiveGrantKeepsToken' /\ NoTokenLeftBehind'
      BY <2>1, <2>2 DEF Inv, LiveGrantKeepsToken, NoTokenLeftBehind, Follows, ghosts
    <2>7. TodoEnded' /\ ReplayEndsFamily'
      BY <2>1, <2>3, QuietStep DEF ghosts
    <2>8. QED
      BY <2>1, <2>2, <2>3, <2>5, <2>6, <2>7 DEF Inv, ghosts
  <1>2. CASE Collect
    BY <1>2, NowGood, PlainMutation DEF Collect, Inv, TypeOK
  <1>3. ASSUME NEW c \in Clients, Register(c) PROVE Inv' /\ EndedStays(doc, doc')
    BY <1>3, NowGood, PlainMutation DEF Register, Inv, TypeOK
  <1>4. ASSUME NEW c \in Clients, Authorize(c) PROVE Inv' /\ EndedStays(doc, doc')
    <2>1. consent' \in [Clients -> 0..ConsentTTL]
      BY <1>4, Parameters DEF Authorize, Inv, TypeOK
    <2>2. QED
      BY <1>4, <2>1, NowGood, PlainMutation DEF Authorize, Inv, TypeOK
  <1>5. ASSUME NEW c \in Clients, ApproveRefused(c) PROVE Inv' /\ EndedStays(doc, doc')
    BY <1>5, RaisesStep DEF ApproveRefused
  <1>6. ASSUME NEW c \in Clients, NEW f \in Families, ApproveInterrupted(c, f)
        PROVE  Inv' /\ EndedStays(doc, doc')
    <2>1. /\ doc.family[f].st = "none" /\ faults < MaxFaults
          /\ faults' = faults + 1
          /\ token' = [token EXCEPT ![f] = "stored"]
          /\ orphaned' = orphaned \cup {f}
          /\ consent' \in {consent, [consent EXCEPT ![c] = 0]}
          /\ UNCHANGED <<doc, loaded, todo, answered, replayed, unsaved, unheard>>
      BY <1>6 DEF ApproveInterrupted
    <2>2. TypeOK'
      <3>1. consent' \in [Clients -> 0..ConsentTTL]
        <4>1. 0 \in 0..ConsentTTL
          BY Parameters
        <4>2. consent \in [Clients -> 0..ConsentTTL]
          BY DEF Inv, TypeOK
        <4>3. [consent EXCEPT ![c] = 0] \in [Clients -> 0..ConsentTTL]
          BY <4>1, <4>2, Zenon
        <4>4. QED
          BY <2>1, <4>2, <4>3
      <3>2. token' \in [Families -> {"none", "stored", "queued"}]
        BY <2>1 DEF Inv, TypeOK
      <3>3. faults' \in 0..MaxFaults /\ orphaned' \subseteq Families
        BY <2>1, Parameters DEF Inv, TypeOK
      <3>4. QED
        BY <2>1, <3>1, <3>2, <3>3 DEF Inv, TypeOK
    <2>3. LiveGrantKeepsToken' /\ NoTokenLeftBehind'
      BY <2>1 DEF Inv, TypeOK, LiveGrantKeepsToken, NoTokenLeftBehind, Valid
    <2>4. QED
      BY <2>1, <2>2, <2>3, AsideStep
  <1>7. ASSUME NEW f \in Families, Redeem(f) PROVE Inv' /\ EndedStays(doc, doc')
    BY <1>7, NowGood, PlainMutation DEF Redeem, Inv, TypeOK
  <1>8. ASSUME NEW f \in Families, RedeemRefused(f) PROVE Inv' /\ EndedStays(doc, doc')
    BY <1>8, RaisesStep DEF RedeemRefused
  <1>9. ASSUME NEW f \in Families, NEW n \in 1..Pairs, LoadRefresh(f, n)
        PROVE  Inv' /\ EndedStays(doc, doc')
    <2>1. loaded' \subseteq Families \X (1..Pairs)
      BY <1>9 DEF LoadRefresh, Inv, TypeOK
    <2>2. CASE Mutation(Now, Expired(doc))
      BY <1>9, <2>1, <2>2, NowGood, PlainMutation DEF LoadRefresh, Inv, TypeOK
    <2>3. CASE Mutation(Ended(Now, {f}), Expired(doc) \cup {f})
      BY <1>9, <2>1, <2>3, NowGood, PlainMutation DEF LoadRefresh, Inv, TypeOK
    <2>4. QED
      BY <1>9, <2>2, <2>3 DEF LoadRefresh
  <1>10. ASSUME NEW f \in Families, NEW n \in 1..Pairs, Leave(f, n)
         PROVE  Inv' /\ EndedStays(doc, doc')
    <2>1. loaded' \subseteq loaded /\ UNCHANGED <<doc, token, consent, todo, faults, ghosts>>
      BY <1>10 DEF Leave
    <2>2. TypeOK' /\ LiveGrantKeepsToken' /\ NoTokenLeftBehind'
      BY <2>1 DEF Inv, TypeOK, LiveGrantKeepsToken, NoTokenLeftBehind, ghosts
    <2>3. QED
      BY <2>1, <2>2, AsideStep DEF ghosts
  <1>11. ASSUME NEW f \in Families, Revoke(f) PROVE Inv' /\ EndedStays(doc, doc')
    <2>1. Good(Ended(doc, {f}), answered) /\ Follows(doc, Ended(doc, {f}), {f})
      BY EndedGood DEF Inv
    <2>2. /\ Mutation(Ended(doc, {f}), {f})
          /\ UNCHANGED <<consent, loaded, todo, answered, replayed, orphaned>>
          /\ {f} \in SUBSET Families
      BY <1>11 DEF Revoke
    <2>3. loaded' \subseteq Families \X (1..Pairs) /\ consent' \in [Clients -> 0..ConsentTTL]
      BY <2>2 DEF Inv, TypeOK
    <2>4. QED
      BY <2>1, <2>2, <2>3, PlainMutation
  <1>12. ASSUME NEW f \in Families, AdminQueue(f) PROVE Inv' /\ EndedStays(doc, doc')
    <2>1. /\ f \in todo /\ token' = Queue({f}) /\ todo' = todo \ {f}
          /\ UNCHANGED <<doc, consent, loaded, faults, ghosts>>
      BY <1>12 DEF AdminQueue
    <2>2. ~ Valid(doc, f)
      BY <2>1 DEF Inv, TodoEnded, Valid
    <2>3. TypeOK'
      BY <2>1, QueueType DEF Inv, TypeOK, ghosts
    <2>4. \A g \in Families : token'[g] = IF g = f /\ token[g] = "stored" THEN "queued" ELSE token[g]
      BY <2>1 DEF Queue
    <2>5. LiveGrantKeepsToken' /\ NoTokenLeftBehind'
      BY <2>1, <2>2, <2>4 DEF Inv, LiveGrantKeepsToken, NoTokenLeftBehind, ghosts
    <2>6. QED
      BY <2>1, <2>3, <2>5, AsideStep DEF ghosts
  <1>13. ASSUME NEW S \in SUBSET Families, AdminQueueFails(S)
         PROVE  Inv' /\ EndedStays(doc, doc')
    <2>1. /\ todo' \subseteq todo /\ faults < MaxFaults /\ faults' = faults + 1
          /\ UNCHANGED <<doc, token, consent, loaded, ghosts>>
      BY <1>13 DEF AdminQueueFails
    <2>2. TypeOK' /\ LiveGrantKeepsToken' /\ NoTokenLeftBehind'
      BY <2>1, Parameters DEF Inv, TypeOK, LiveGrantKeepsToken, NoTokenLeftBehind, ghosts
    <2>3. QED
      BY <2>1, <2>2, AsideStep DEF ghosts
  <1>14. ASSUME NEW f \in Families, Settle(f) PROVE Inv' /\ EndedStays(doc, doc')
    <2>1. /\ token[f] = "queued" /\ token' = [token EXCEPT ![f] = "none"]
          /\ UNCHANGED <<doc, consent, loaded, todo, faults, ghosts>>
      BY <1>14 DEF Settle
    <2>2. TypeOK' /\ LiveGrantKeepsToken' /\ NoTokenLeftBehind'
      BY <2>1 DEF Inv, TypeOK, LiveGrantKeepsToken, NoTokenLeftBehind, ghosts
    <2>3. QED
      BY <2>1, <2>2, AsideStep DEF ghosts
  <1>15. CASE Restart
    <2>1. /\ faults < MaxFaults /\ faults' = faults + 1
          /\ consent' = [c \in Clients |-> 0] /\ loaded' = {}
          /\ UNCHANGED <<doc, token, todo, ghosts>>
      BY <1>15 DEF Restart
    <2>2. TypeOK' /\ LiveGrantKeepsToken' /\ NoTokenLeftBehind'
      BY <2>1, Parameters DEF Inv, TypeOK, LiveGrantKeepsToken, NoTokenLeftBehind, ghosts
    <2>3. QED
      BY <2>1, <2>2, AsideStep DEF ghosts
  <1>16. CASE UNCHANGED vars
    <2>1. UNCHANGED <<doc, token, consent, loaded, todo, faults, ghosts>>
      BY <1>16 DEF vars
    <2>2. TypeOK' /\ LiveGrantKeepsToken' /\ NoTokenLeftBehind'
      BY <2>1 DEF Inv, TypeOK, LiveGrantKeepsToken, NoTokenLeftBehind, ghosts
    <2>3. QED
      BY <2>1, <2>2, AsideStep DEF ghosts
  <1>17. QED
    BY <1>1, <1>2, <1>3, <1>4, <1>5, <1>6, <1>7, <1>8, <1>9, <1>10, <1>11, <1>12, <1>13,
       <1>14, <1>15, <1>16, ApproveStep, AdminRevokeStep, RotateStep, RotateAgainStep
    DEF Next
\* The empty document satisfies the invariant.
LEMMA InitInv == Init => Inv
  <1> SUFFICES ASSUME Init PROVE Inv
    OBVIOUS
  <1>1. doc \in Document
    <2> DEFINE cl == [c \in Clients |-> [st |-> "new", left |-> 0]]
               fa == [f \in Families |-> NoFamily]
               co == [f \in Families |-> NoCode]
               re == [f \in Families |-> [n \in 1..Pairs |-> "none"]]
               ac == [f \in Families |-> [n \in 1..Pairs |-> NoAccess]]
    <2>1. doc = [client |-> cl, family |-> fa, code |-> co, refresh |-> re, access |-> ac]
      BY DEF Init
    <2>2. cl \in ClientRecords
      BY Parameters DEF ClientRecords
    <2>3. fa \in FamilyRecords
      BY Parameters DEF FamilyRecords, NoFamily
    <2>4. co \in CodeRecords
      BY Parameters DEF CodeRecords, NoCode, Statuses
    <2>5. re \in RefreshRecords
      BY DEF RefreshRecords, Statuses
    <2>6. ac \in AccessRecords
      BY Parameters DEF AccessRecords, AccessRecord, NoAccess
    <2> HIDE DEF cl, fa, co, re, ac
    <2>7. QED
      BY <2>1, <2>2, <2>3, <2>4, <2>5, <2>6, DocumentIntro
  <1>2. TypeOK
    BY <1>1, Parameters DEF Init, TypeOK
  <1>3. \A f \in Families :
          /\ doc.family[f].st = "none"
          /\ \A n \in 1..Pairs : doc.refresh[f][n] = "none" /\ answered[f][n] = 0
    BY DEF Init, NoFamily
  <1>4. Good(doc, answered)
    BY <1>1, <1>3 DEF Good, Sound, Active
  <1>5. TodoEnded /\ ReplayEndsFamily /\ LiveGrantKeepsToken /\ NoTokenLeftBehind
    BY <1>3 DEF Init, TodoEnded, ReplayEndsFamily, LiveGrantKeepsToken, NoTokenLeftBehind, Valid
  <1>6. QED
    BY <1>2, <1>4, <1>5 DEF Inv

\* The invariant holds in every reachable state.
LEMMA Invariant == Spec => []Inv
  <1>1. Init => Inv
    BY InitInv
  <1>2. Inv /\ [Next]_vars => Inv'
    BY StepInv
  <1>3. QED
    BY <1>1, <1>2, PTL DEF Spec

-------------------------------------------------------------------------------
(***************************************************************************)
(* 6. The theorems.                                                        *)
(***************************************************************************)

\* Every reachable state is well typed, whatever the bounds and lives.
THEOREM TypeCorrect == Spec => []TypeOK
  <1>1. Inv => TypeOK
    BY DEF Inv
  <1>2. QED
    BY <1>1, Invariant, PTL

\* No refresh token is ever answered with two pairs, however often it is
\* presented, and a family has at most one refresh token in force.
THEOREM RefreshHasOneSuccessor == Spec => []OneSuccessor
  <1>1. Inv => OneSuccessor
    <2> SUFFICES ASSUME Inv, NEW f \in Families
                 PROVE  /\ \A m, n \in 1..Pairs :
                             doc.refresh[f][m] = "active" /\ doc.refresh[f][n] = "active" => m = n
                        /\ doc.code[f].st = "active" => \A n \in 1..Pairs : doc.refresh[f][n] = "none"
                        /\ \A n \in 1..Pairs : answered[f][n] <= 1
      BY DEF OneSuccessor
    <2>1. Sound(doc, answered, f)
      BY DEF Inv, Good
    <2>2. \A n \in 1..Pairs : answered[f][n] <= 1
      BY <2>1 DEF Sound
    <2>3. QED
      BY <2>1, <2>2 DEF Sound
  <1>2. QED
    BY <1>1, Invariant, PTL

\* An ended family has no token in force, at whatever point of a concurrent
\* rotation, mutation failure or restart it ended.
THEOREM RevokedIsDead == Spec => []RevokedMeansDead
  <1>1. Inv => RevokedMeansDead
    BY DEF Inv, Good, Sound, RevokedMeansDead
  <1>2. QED
    BY <1>1, Invariant, PTL

\* A refresh token that is presented again after its rotation ends its family.
THEOREM ReplayIsFatal == Spec => []ReplayEndsFamily
  <1>1. Inv => ReplayEndsFamily
    BY DEF Inv
  <1>2. QED
    BY <1>1, Invariant, PTL

\* No step brings a revoked or collected family back.
THEOREM EndsAreFinal == Spec => EndIsFinal
  <1>1. Inv /\ [Next]_vars =>
          [\A f \in Families :
             /\ doc.family[f].st = "revoked" => doc'.family[f].st \in {"revoked", "gone"}
             /\ doc.family[f].st = "gone" => doc'.family[f].st = "gone"]_vars
    BY StepInv DEF EndedStays
  <1>2. QED
    BY <1>1, Invariant, PTL DEF Spec, EndIsFinal

\* A client with a living grant is never collected.
THEOREM GrantsKeepClients == Spec => []GrantKeepsClient
  <1>1. Inv => GrantKeepsClient
    BY DEF Inv, Good, GrantKeepsClient
  <1>2. QED
    BY <1>1, Invariant, PTL

\* The Loxone token of a living grant is not queued for revocation, unless a
\* write failed after the announcement.
THEOREM LiveGrantsKeepTokens == Spec => []LiveGrantKeepsToken
  <1>1. Inv => LiveGrantKeepsToken
    BY DEF Inv
  <1>2. QED
    BY <1>1, Invariant, PTL

\* A stored Loxone token belongs to a recorded family, unless its sign-in was
\* interrupted or announcing the family's end failed.
THEOREM NoTokenIsLeftBehind == Spec => []NoTokenLeftBehind
  <1>1. Inv => NoTokenLeftBehind
    BY DEF Inv
  <1>2. QED
    BY <1>1, Invariant, PTL
===============================================================================
