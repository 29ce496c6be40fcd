----------------------------- MODULE StoreProofs -----------------------------
(***************************************************************************)
(* Proofs about the evidence store, for any files, lanes and classes.      *)
(*                                                                         *)
(* The least facts first: a set of records is finite and can be counted    *)
(* with its errors first, so fresh rows are numbered above the held ones.  *)
(* Then what each lane adds to the rows, and how a year moves.  A receipt  *)
(* is true when it is written and stays true while rows only grow; between *)
(* the statements of an unbank nothing cites the rows about to go.         *)
(***************************************************************************)
EXTENDS Store, FiniteSetTheorems, FunctionTheorems, WellFoundedInduction, TLAPS

\* A file holds what its lane's files can hold, and a host lane's row is of a host.
ContentHeld == \A f \in File : content[f] \subseteq Holds(f)
RowsNamed ==
  /\ \A row \in rows : row.lane # "bulk" => row.subject # Own
  /\ \A a, b \in rows : a.id = b.id => a = b

\* Between two statements of an unbank nothing cites the rows that are about to go.
Unbanking ==
  /\ pc \in {"years", "evidence", "receipts"} => \A k \in Pair \X Host : hostyear[k] \notin Ids
  /\ pc \in {"evidence", "receipts"} => \A p \in Pair : year[p] \notin Ids
  /\ unbanks = 0 => pc = "idle"

StoreInv ==
  TypeOK /\ ContentHeld /\ RowsNamed /\ Unbanking /\ Walls /\ OneRowPerSubject /\ ReadIsStored

\* Numbers that are there have a least one.
LEMMA LeastNat ==
  ASSUME NEW N, N \subseteq Nat, N # {} PROVE \E n \in N : \A m \in N : n <= m
  <1> DEFINE R == OpToRel(<, Nat)
  <1>1. \A x, y \in Nat : <<x, y>> \in R <=> x < y BY DEF OpToRel
  <1>2. IsWellFoundedOn(R, Nat) BY NatLessThanWellFounded DEF R
  <1> HIDE DEF R
  <1>3. PICK n \in N : \A m \in N : <<m, n>> \notin R BY <1>2, WFMin
  <1>4. \A m \in N : ~ (m < n) BY <1>1, <1>3
  <1> QED BY <1>3, <1>4

\* The row a year moves to is one of the rows, and none of them is older.
LEMMA LowestFacts ==
  ASSUME NEW S, S # {}, \A row \in S : row.id \in Nat
  PROVE  Lowest(S) \in S /\ \A other \in S : Lowest(S).id <= other.id
  <1>1. {row.id : row \in S} # {} /\ {row.id : row \in S} \subseteq Nat OBVIOUS
  <1>2. PICK n \in {row.id : row \in S} : \A m \in {row.id : row \in S} : n <= m BY <1>1, LeastNat
  <1>3. \E row \in S : \A other \in S : row.id <= other.id BY <1>2
  <1> QED BY <1>3 DEF Lowest

\* A record is its pair, its subject and its quality.
LEMMA RecordFields ==
  ASSUME NEW r \in Record PROVE r = [pair |-> r.pair, subject |-> r.subject, quality |-> r.quality]
  BY DEF Record

LEMMA RecordsFinite == IsFiniteSet(Record)
  <1> DEFINE T == Pair \X (Subject \X Quality)
             F == [t \in T |-> [pair |-> t[1], subject |-> t[2][1], quality |-> t[2][2]]]
  <1>1. IsFiniteSet(Subject) BY StoreAssumption, FS_AddElement DEF Subject
  <1>2. IsFiniteSet(Quality)
    <2>1. IsFiniteSet({"web"}) BY FS_Singleton
    <2>2. IsFiniteSet({"web"} \cup {"error"}) BY <2>1, FS_AddElement
    <2>3. IsFiniteSet({"web"} \cup {"error"} \cup {"other"}) BY <2>2, FS_AddElement
    <2>4. Quality = {"web"} \cup {"error"} \cup {"other"} BY DEF Quality
    <2> QED BY <2>3, <2>4
  <1>3. IsFiniteSet(Subject \X Quality) BY <1>1, <1>2, FS_Product
  <1>4. IsFiniteSet(T) BY <1>3, StoreAssumption, FS_Product
  <1>5. F \in [T -> Record] BY DEF Record
  <1>6. ASSUME NEW r \in Record PROVE \E t \in T : F[t] = r
    <2>1. r.pair \in Pair /\ r.subject \in Subject /\ r.quality \in Quality BY DEF Record
    <2>2. <<r.pair, <<r.subject, r.quality>>>> \in T BY <2>1
    <2>3. F[<<r.pair, <<r.subject, r.quality>>>>] = [pair |-> r.pair, subject |-> r.subject, quality |-> r.quality]
      BY <2>2
    <2>4. r = [pair |-> r.pair, subject |-> r.subject, quality |-> r.quality] BY DEF Record
    <2> QED BY <2>2, <2>3, <2>4
  <1> HIDE DEF F, T
  <1>7. F \in Surjection(T, Record) BY <1>5, <1>6 DEF Surjection
  <1> QED BY <1>4, <1>7, FS_Surjection

\* A set of records can be counted, its errors first.
LEMMA OrderedIds ==
  ASSUME NEW records, records \subseteq Record, NEW n \in Nat
  PROVE  /\ IsFiniteSet(records) /\ Cardinality(records) \in Nat
         /\ \E ids \in [records -> n..(n + Cardinality(records) - 1)] :
              \A a, b \in records : /\ ids[a] = ids[b] => a = b
                                    /\ a.quality = "error" /\ b.quality = "web" => ids[a] < ids[b]
  <1> DEFINE E == {r \in records : r.quality = "error"}
             O == {r \in records : r.quality # "error"}
  <1>1. IsFiniteSet(records) BY RecordsFinite, FS_Subset
  <1>2. IsFiniteSet(E) /\ IsFiniteSet(O) BY <1>1, FS_Subset
  <1>3. E \cup O = records /\ E \cap O = {} OBVIOUS
  <1>4. \A r \in records : r \in E <=> r.quality = "error" OBVIOUS
  <1> HIDE DEF E, O
  <1>5. Cardinality(records) \in Nat /\ Cardinality(E) \in Nat /\ Cardinality(O) \in Nat
    BY <1>1, <1>2, FS_CardinalityType
  <1>6. Cardinality(records) = Cardinality(E) + Cardinality(O)
    <2>1. Cardinality(E \cup O) = Cardinality(E) + Cardinality(O) - Cardinality(E \cap O)
      BY <1>2, FS_Union
    <2>2. Cardinality(E \cap O) = 0 BY <1>3, FS_EmptySet
    <2>3. Cardinality(E \cup O) = Cardinality(records) BY <1>3, Zenon
    <2> QED BY <1>5, <2>1, <2>2, <2>3
  <1>7. \A S : IsFiniteSet(S) => \E f \in [S -> 1..Cardinality(S)] : \A a, b \in S : f[a] = f[b] => a = b
    <2> SUFFICES ASSUME NEW S, IsFiniteSet(S)
                 PROVE  \E f \in [S -> 1..Cardinality(S)] : \A a, b \in S : f[a] = f[b] => a = b
      OBVIOUS
    <2>1. ExistsBijection(S, 1..Cardinality(S)) BY FS_CardinalityType, Fun_ExistsBijSymmetric
    <2> QED BY <2>1 DEF ExistsBijection, Bijection, Injection, IsInjective
  <1>8. PICK f \in [E -> 1..Cardinality(E)] : \A a, b \in E : f[a] = f[b] => a = b BY <1>2, <1>7
  <1>9. PICK g \in [O -> 1..Cardinality(O)] : \A a, b \in O : g[a] = g[b] => a = b BY <1>2, <1>7
  <1> DEFINE ids == [r \in records |-> IF r \in E THEN n + f[r] - 1 ELSE n + Cardinality(E) + g[r] - 1]
  <1>10. ASSUME NEW r \in E PROVE ids[r] = n + f[r] - 1 /\ f[r] \in 1..Cardinality(E) /\ r \in records
    BY <1>3, <1>8
  <1>11. ASSUME NEW r \in records, r \notin E
         PROVE  ids[r] = n + Cardinality(E) + g[r] - 1 /\ g[r] \in 1..Cardinality(O) /\ r \in O
    BY <1>3, <1>9, <1>11
  <1>12. ASSUME NEW r \in records PROVE ids[r] \in n..(n + Cardinality(records) - 1)
    <2> HIDE DEF ids
    <2>1. CASE r \in E BY <1>5, <1>6, <1>10, <2>1
    <2>2. CASE r \notin E BY <1>5, <1>6, <1>11, <2>2
    <2> QED BY <2>1, <2>2
  <1>13. ids \in [records -> n..(n + Cardinality(records) - 1)] BY <1>12
  <1> HIDE DEF ids
  <1>14. ASSUME NEW a \in records, NEW b \in records, a \in E, b \notin E PROVE ids[a] < ids[b]
    <2>1. ids[a] = n + f[a] - 1 /\ f[a] \in 1..Cardinality(E) BY <1>10, <1>14
    <2>2. ids[b] = n + Cardinality(E) + g[b] - 1 /\ g[b] \in 1..Cardinality(O) BY <1>11, <1>14
    <2> QED BY <1>5, <2>1, <2>2
  <1>15. ASSUME NEW a \in records, NEW b \in records, ids[a] = ids[b] PROVE a = b
    <2>1. CASE a \in E /\ b \in E
      <3>1. f[a] = f[b]
        <4>1. n + f[a] - 1 = n + f[b] - 1 /\ f[a] \in Int /\ f[b] \in Int BY <1>10, <1>15, <2>1
        <4> QED BY <4>1
      <3> QED BY <1>8, <2>1, <3>1
    <2>2. CASE a \notin E /\ b \notin E
      <3>1. g[a] = g[b]
        <4>1. /\ n + Cardinality(E) + g[a] - 1 = n + Cardinality(E) + g[b] - 1
              /\ g[a] \in Int /\ g[b] \in Int
          BY <1>11, <1>15, <2>2
        <4> QED BY <1>5, <4>1
      <3> QED BY <1>9, <1>11, <2>2, <3>1
    <2>3. CASE a \in E /\ b \notin E
      <3>1. ids[a] < ids[b] BY <1>14, <2>3
      <3>2. ids[a] \in Int BY <1>5, <1>12
      <3> QED BY <1>15, <3>1, <3>2
    <2>4. CASE a \notin E /\ b \in E
      <3>1. ids[b] < ids[a] BY <1>14, <2>4
      <3>2. ids[a] \in Int BY <1>5, <1>12
      <3> QED BY <1>15, <3>1, <3>2
    <2> QED BY <2>1, <2>2, <2>3, <2>4
  <1>16. \A a, b \in records : a.quality = "error" /\ b.quality = "web" => ids[a] < ids[b]
    BY <1>4, <1>14
  <1> QED BY <1>1, <1>5, <1>13, <1>15, <1>16

\* The rows that a lane's new records become.
LEMMA NumberedFacts ==
  ASSUME TypeOK, NEW s \in Source, NEW lane \in Lanes, NEW records, records \subseteq Record
  PROVE  LET fresh == Numbered(s, lane, records)
         IN  /\ \A row \in fresh : row \in Row /\ row.source = s /\ row.lane = lane
             /\ \A row \in fresh : row.id \in next..(next + Cardinality(fresh) - 1) /\ row.id \in Nat \ {0}
             /\ \A row \in fresh : \E r \in records :
                  row.pair = r.pair /\ row.subject = r.subject /\ row.quality = r.quality
             /\ \A r \in records : \E row \in fresh :
                  row.pair = r.pair /\ row.subject = r.subject /\ row.quality = r.quality
             /\ \A a, b \in fresh : a.id = b.id => a = b
             /\ \A a, b \in fresh : a.pair = b.pair /\ a.subject = b.subject /\ a.quality = b.quality => a = b
             /\ \A a, b \in fresh : a.quality = "error" /\ b.quality = "web" => a.id < b.id
             /\ Cardinality(fresh) \in Nat
  <1> DEFINE fresh == Numbered(s, lane, records)
             Good(ids) == \A a, b \in records : /\ ids[a] = ids[b] => a = b
                                                /\ a.quality = "error" /\ b.quality = "web" => ids[a] < ids[b]
             num == CHOOSE ids \in [records -> next..(next + Cardinality(records) - 1)] : Good(ids)
             RowFor(r) == [id |-> num[r], source |-> s, lane |-> lane, pair |-> r.pair, subject |-> r.subject,
                           quality |-> r.quality]
  <1>1. next \in Nat /\ \A f \in File : TRUE BY DEF TypeOK
  <1>2. IsFiniteSet(records) /\ Cardinality(records) \in Nat BY <1>1, OrderedIds
  <1>3. \E ids \in [records -> next..(next + Cardinality(records) - 1)] : Good(ids)
    BY <1>1, OrderedIds
  <1>4. fresh = {RowFor(r) : r \in records} BY DEF Numbered
  <1>5. num \in [records -> next..(next + Cardinality(records) - 1)] /\ Good(num) BY <1>3
  <1> HIDE DEF num, fresh
  <1>6. \A r \in records : r.pair \in Pair /\ r.subject \in Subject /\ r.quality \in Quality
                           /\ r = [pair |-> r.pair, subject |-> r.subject, quality |-> r.quality]
    BY DEF Record
  <1>7. \A r \in records : /\ RowFor(r).id = num[r] /\ RowFor(r).source = s /\ RowFor(r).lane = lane
                           /\ RowFor(r).pair = r.pair /\ RowFor(r).subject = r.subject
                           /\ RowFor(r).quality = r.quality
    OBVIOUS
  <1>8. \A r \in records : num[r] \in next..(next + Cardinality(records) - 1) BY <1>5
  <1>9. \A r \in records : num[r] \in Nat BY <1>1, <1>2, <1>8
  <1>10. \A r \in records : RowFor(r) \in Row BY <1>6, <1>9 DEF Row
  <1> HIDE DEF RowFor
  <1>11. \A a, b \in records : RowFor(a) = RowFor(b) => a = b
    <2>1. \A a, b \in records : num[a] = num[b] => a = b BY <1>5
    <2> QED BY <1>7, <2>1
  <1>12. Cardinality(fresh) = Cardinality(records)
    <2> DEFINE F == [r \in records |-> RowFor(r)]
    <2>1. F \in [records -> fresh] BY <1>4
    <2>2. \A a, b \in records : F[a] = F[b] => a = b BY <1>11
    <2>3. \A t \in fresh : \E r \in records : F[r] = t BY <1>4
    <2> HIDE DEF F
    <2>4. F \in Bijection(records, fresh) BY <2>1, <2>2, <2>3 DEF Bijection, Injection, Surjection, IsInjective
    <2>5. ExistsBijection(records, fresh) BY <2>4 DEF ExistsBijection
    <2> QED BY <1>2, <2>5, FS_Bijection
  <1>13. next # 0 BY DEF TypeOK
  <1>14. \A row \in fresh : \E r \in records : row = RowFor(r) BY <1>4
  <1>15. \A r \in records : RowFor(r) \in fresh BY <1>4
  <1>16. \A row \in fresh : row \in Row /\ row.source = s /\ row.lane = lane BY <1>7, <1>10, <1>14
  <1>17. \A row \in fresh : row.id \in next..(next + Cardinality(fresh) - 1) /\ row.id \in Nat \ {0}
    BY <1>1, <1>7, <1>8, <1>9, <1>12, <1>13, <1>14
  <1>18. \A row \in fresh : \E r \in records :
           row.pair = r.pair /\ row.subject = r.subject /\ row.quality = r.quality
    BY <1>7, <1>14
  <1>19. \A r \in records : \E row \in fresh :
           row.pair = r.pair /\ row.subject = r.subject /\ row.quality = r.quality
    BY <1>7, <1>15
  <1>20. \A a, b \in fresh : a.id = b.id => a = b
    <2>1. \A a, b \in records : num[a] = num[b] => a = b BY <1>5
    <2> QED BY <1>7, <1>14, <2>1
  <1>21. \A a, b \in fresh : a.pair = b.pair /\ a.subject = b.subject /\ a.quality = b.quality => a = b
    <2> SUFFICES ASSUME NEW a \in fresh, NEW b \in fresh,
                        a.pair = b.pair, a.subject = b.subject, a.quality = b.quality
                 PROVE  a = b
      OBVIOUS
    <2>1. PICK r \in records : a = RowFor(r) BY <1>14
    <2>2. PICK q \in records : b = RowFor(q) BY <1>14
    <2>3. r.pair = q.pair /\ r.subject = q.subject /\ r.quality = q.quality BY <1>7, <2>1, <2>2
    <2>4. r = q BY <1>6, <2>3
    <2> QED BY <2>1, <2>2, <2>4
  <1>22. \A a, b \in fresh : a.quality = "error" /\ b.quality = "web" => a.id < b.id
    <2>1. \A a, b \in records : a.quality = "error" /\ b.quality = "web" => num[a] < num[b] BY <1>5
    <2> QED BY <1>7, <1>14, <2>1
  <1> QED BY <1>2, <1>12, <1>16, <1>17, <1>18, <1>19, <1>20, <1>21, <1>22 DEF fresh

\* Rows of fresh records: typed, above the held ones, and one for a subject if they are.
LEMMA RowsAdded ==
  ASSUME StoreInv, NEW s \in Source, NEW lane \in Lanes, NEW records, records \subseteq Record,
         rows' = rows \cup Numbered(s, lane, records), next' = next + Cardinality(Numbered(s, lane, records)),
         lane # "bulk" => \A r \in records : r.subject # Own
  PROVE  /\ rows' \subseteq Row /\ (\A row \in rows' : row.id \in 1..next' - 1) /\ next' \in Nat \ {0}
         /\ RowsNamed' /\ \A a \in rows, b \in Numbered(s, lane, records) : a.id < b.id
  <1> DEFINE fresh == Numbered(s, lane, records)
  <1>1. /\ rows \subseteq Row /\ (\A row \in rows : row.id \in 1..next - 1) /\ next \in Nat \ {0} /\ TypeOK /\ RowsNamed
    BY DEF StoreInv, TypeOK
  <1>2. /\ \A row \in fresh : row \in Row /\ row.source = s /\ row.lane = lane
        /\ \A row \in fresh : row.id \in next..(next + Cardinality(fresh) - 1) /\ row.id \in Nat \ {0}
        /\ \A row \in fresh : \E r \in records :
             row.pair = r.pair /\ row.subject = r.subject /\ row.quality = r.quality
        /\ \A a, b \in fresh : a.id = b.id => a = b
        /\ Cardinality(fresh) \in Nat
    BY <1>1, NumberedFacts
  <1> HIDE DEF fresh
  <1>3. rows' = rows \cup fresh /\ next' = next + Cardinality(fresh) BY DEF fresh
  <1>4. \A a \in rows, b \in fresh : a.id < b.id BY <1>1, <1>2
  <1>5. \A row \in rows' : row.id \in 1..next' - 1
    <2>1. ASSUME NEW row \in rows PROVE row.id \in 1..next' - 1 BY <1>1, <1>2, <1>3
    <2>2. ASSUME NEW row \in fresh PROVE row.id \in 1..next' - 1 BY <1>1, <1>2, <1>3
    <2> QED BY <1>3, <2>1, <2>2
  <1>6. \A row \in rows' : row.lane # "bulk" => row.subject # Own BY <1>1, <1>2, <1>3 DEF RowsNamed
  <1>7. ASSUME NEW a \in rows', NEW b \in rows', a.id = b.id PROVE a = b
    <2>1. \A c \in rows : c.id \in Int BY <1>1
    <2>2. CASE a \in rows /\ b \in rows BY <1>1, <1>7, <2>2 DEF RowsNamed
    <2>3. CASE a \in fresh /\ b \in fresh BY <1>2, <1>7, <2>3
    <2>4. CASE a \in rows /\ b \in fresh BY <1>4, <1>7, <2>1, <2>4
    <2>5. CASE a \in fresh /\ b \in rows BY <1>4, <1>7, <2>1, <2>5
    <2> QED BY <1>3, <2>2, <2>3, <2>4, <2>5
  <1>8. rows' \subseteq Row /\ next' \in Nat \ {0} BY <1>1, <1>2, <1>3
  <1> QED BY <1>4, <1>5, <1>6, <1>7, <1>8 DEF RowsNamed, fresh

\* Rows of records that no held row of their class stands against leave one row for a subject.
LEMMA OneRowAdded ==
  ASSUME StoreInv, NEW s \in Source, NEW lane \in Lanes, NEW records, records \subseteq Record,
         rows' = rows \cup Numbered(s, lane, records), next' = next + Cardinality(Numbered(s, lane, records)),
         lane # "bulk" => \A r \in records : r.subject # Own,
         \A r \in records, h \in rows :
           Class(h) = ClassOf[s] /\ h.pair = r.pair /\ h.subject = r.subject /\ (h.lane = "bulk" <=> lane = "bulk")
             => h.quality # "web" /\ r.quality = "web",
         \A r, q \in records :
           r.pair = q.pair /\ r.subject = q.subject /\ r.quality # q.quality
             => {r.quality, q.quality} = {"error", "web"}
  PROVE  OneRowPerSubject'
  <1> DEFINE fresh == Numbered(s, lane, records)
  <1>1. TypeOK /\ OneRowPerSubject /\ next \in Nat /\ (\A row \in rows : row.id \in 1..next - 1)
    BY DEF StoreInv, TypeOK
  <1>2. /\ \A row \in fresh : row.source = s /\ row.lane = lane /\ row.id \in Nat
        /\ \A row \in fresh : \E r \in records :
             row.pair = r.pair /\ row.subject = r.subject /\ row.quality = r.quality
        /\ \A a, b \in fresh : a.pair = b.pair /\ a.subject = b.subject /\ a.quality = b.quality => a = b
        /\ \A a, b \in fresh : a.quality = "error" /\ b.quality = "web" => a.id < b.id
    BY <1>1, NumberedFacts
  <1>3. \A a \in rows, b \in fresh : a.id < b.id BY RowsAdded
  <1> HIDE DEF fresh
  <1>4. rows' = rows \cup fresh BY DEF fresh
  <1>5. ASSUME NEW a \in rows', NEW b \in rows', a.id < b.id, Class(a) = Class(b), a.pair = b.pair,
               a.subject = b.subject, a.lane = "bulk" <=> b.lane = "bulk"
        PROVE  a.quality # "web" /\ b.quality = "web"
    <2>1. CASE a \in rows /\ b \in rows BY <1>1, <1>5, <2>1 DEF OneRowPerSubject
    <2>2. CASE a \in rows /\ b \in fresh
      <3>1. PICK r \in records : b.pair = r.pair /\ b.subject = r.subject /\ b.quality = r.quality BY <1>2, <2>2
      <3>2. Class(a) = ClassOf[s] /\ (a.lane = "bulk" <=> lane = "bulk") BY <1>2, <1>5, <2>2 DEF Class
      <3> QED BY <1>5, <2>2, <3>1, <3>2
    <2>3. CASE a \in fresh /\ b \in rows
      <3>1. b.id < a.id /\ a.id \in Int /\ b.id \in Int BY <1>1, <1>2, <1>3, <2>3
      <3> QED BY <1>5, <3>1
    <2>4. CASE a \in fresh /\ b \in fresh
      <3>1. PICK r \in records : a.pair = r.pair /\ a.subject = r.subject /\ a.quality = r.quality BY <1>2, <2>4
      <3>2. PICK q \in records : b.pair = q.pair /\ b.subject = q.subject /\ b.quality = q.quality BY <1>2, <2>4
      <3>3. a.id \in Int /\ b.id \in Int BY <1>2, <2>4
      <3>4. a.quality # b.quality BY <1>2, <1>5, <2>4, <3>3
      <3>5. {r.quality, q.quality} = {"error", "web"} BY <1>5, <3>1, <3>2, <3>4
      <3>6. (a.quality = "web" /\ b.quality = "error") \/ (a.quality = "error" /\ b.quality = "web")
        BY <3>1, <3>2, <3>5
      <3>7. ~ (b.quality = "error" /\ a.quality = "web") BY <1>2, <1>5, <2>4, <3>3
      <3> QED BY <3>6, <3>7
    <2> QED BY <1>4, <2>1, <2>2, <2>3, <2>4
  <1> QED BY <1>5 DEF OneRowPerSubject, Class

\* What a batch of journals quotes.
LEMMA MergedFacts ==
  ASSUME NEW n \in Nat, NEW batch \in [1..n -> SUBSET Record]
  PROVE  /\ \A r \in Merged(batch) : \E i \in 1..n : r \in batch[i]
         /\ \A i \in 1..n : \A r \in batch[i] : r.quality = "web" => r \in Merged(batch)
         /\ \A i \in 1..n : \A r \in batch[i] : r \in Merged(batch) \/
              \E w \in Merged(batch) : w.pair = r.pair /\ w.subject = r.subject /\ w.quality = "web"
  <1> DEFINE At(k) == {i \in 1..n : k \in Keys(batch[i])}
             KeyOf(r) == <<r.pair, r.subject>>
             WebIn(set, k) == \E r \in set : <<r.pair, r.subject>> = k /\ r.quality = "web"
             all == UNION {batch[i] : i \in 1..n}
  <1>1. Merged(batch) = {r \in all : r.quality = "web" \/ ~WebIn(batch[Min(At(KeyOf(r)))], KeyOf(r))}
    BY DEF Merged
  <1>2. \A r : r \in all <=> \E i \in 1..n : r \in batch[i] OBVIOUS
  <1>3. ASSUME NEW i \in 1..n, NEW r \in batch[i] PROVE Min(At(KeyOf(r))) \in 1..n
    <2>1. KeyOf(r) \in Keys(batch[i]) BY DEF Keys
    <2>2. i \in At(KeyOf(r)) BY <2>1
    <2>3. At(KeyOf(r)) \subseteq Nat /\ At(KeyOf(r)) # {} BY <2>2
    <2> HIDE DEF At, KeyOf
    <2>4. \E m \in At(KeyOf(r)) : \A j \in At(KeyOf(r)) : m <= j BY <2>3, LeastNat
    <2>5. Min(At(KeyOf(r))) \in At(KeyOf(r)) BY <2>4 DEF Min
    <2> QED BY <2>5 DEF At
  <1> HIDE DEF all, At
  <1>4. ASSUME NEW i \in 1..n, NEW r \in batch[i], r \notin Merged(batch)
        PROVE  \E w \in Merged(batch) : w.pair = r.pair /\ w.subject = r.subject /\ w.quality = "web"
    <2>1. WebIn(batch[Min(At(KeyOf(r)))], KeyOf(r)) BY <1>1, <1>2, <1>4
    <2>2. PICK w \in batch[Min(At(KeyOf(r)))] : KeyOf(w) = KeyOf(r) /\ w.quality = "web" BY <2>1
    <2>3. w \in all BY <1>2, <1>3, <2>2
    <2>4. w \in Merged(batch) BY <1>1, <2>2, <2>3
    <2> QED BY <2>2, <2>4
  <1>5. \A r \in Merged(batch) : r \in all BY <1>1
  <1>6. \A r \in all : r.quality = "web" => r \in Merged(batch) BY <1>1
  <1> QED BY <1>2, <1>4, <1>5, <1>6

\* What a file of the captures' lane holds is told apart by its subject, its year and web or error.
LEMMA CaptureRecords ==
  ASSUME StoreInv, NEW f \in File, LaneOf[f] = "captures"
  PROVE  /\ content[f] \subseteq Record /\ \A r \in content[f] : r.quality \in {"web", "error"}
         /\ \A r, q \in content[f] : r.pair = q.pair /\ r.subject = q.subject /\ r.quality = q.quality => r = q
  <1>1. content[f] \subseteq {r \in Record : r.quality # "other"} BY DEF StoreInv, ContentHeld, Holds
  <1>2. \A r \in content[f] : r.quality \in {"web", "error"} BY <1>1 DEF Record, Quality
  <1>3. \A r \in Record : r = [pair |-> r.pair, subject |-> r.subject, quality |-> r.quality] BY RecordFields
  <1>4. content[f] \subseteq Record BY <1>1
  <1> QED BY <1>2, <1>3, <1>4

\* A batch of one journal, and of two.
SameKey(r, q) == r.pair = q.pair /\ r.subject = q.subject
WebOf(C, r)   == \E q \in C : SameKey(q, r) /\ q.quality = "web"
KeyIn(C, r)   == \E q \in C : SameKey(q, r)

LEMMA MergedOne ==
  ASSUME NEW C, NEW r PROVE r \in Merged(<<C>>) <=> r \in C /\ (r.quality = "web" \/ ~WebOf(C, r))
  <1> DEFINE batch == <<C>>
             At(k) == {i \in DOMAIN batch : k \in Keys(batch[i])}
             WebIn(set, k) == \E q \in set : <<q.pair, q.subject>> = k /\ q.quality = "web"
             k == <<r.pair, r.subject>>
  <1>1. DOMAIN batch = {1} /\ batch[1] = C OBVIOUS
  <1>2. UNION {batch[i] : i \in DOMAIN batch} = C BY <1>1
  <1>3. r \in Merged(batch) <=>
          r \in UNION {batch[i] : i \in DOMAIN batch} /\ (r.quality = "web" \/ ~WebIn(batch[Min(At(k))], k))
    BY DEF Merged
  <1>4. r \in C => k \in Keys(C) BY DEF Keys
  <1> HIDE DEF batch, k
  <1>5. r \in C => At(k) = {1} BY <1>1, <1>4
  <1>6. Min({1}) = 1 BY DEF Min
  <1>7. r \in C => batch[Min(At(k))] = C BY <1>1, <1>5, <1>6
  <1>8. WebIn(C, k) <=> WebOf(C, r) BY DEF k, WebOf, SameKey
  <1>9. r \in Merged(batch) <=> r \in C /\ (r.quality = "web" \/ ~WebOf(C, r))
    BY <1>2, <1>3, <1>7, <1>8
  <1> QED BY <1>9 DEF batch

LEMMA MergedTwo ==
  ASSUME NEW C, NEW D, NEW r
  PROVE  r \in Merged(<<C, D>>) <=>
           /\ r \in C \cup D
           /\ r.quality = "web" \/ IF KeyIn(C, r) THEN ~WebOf(C, r) ELSE ~WebOf(D, r)
  <1> DEFINE batch == <<C, D>>
             At(k) == {i \in DOMAIN batch : k \in Keys(batch[i])}
             WebIn(set, k) == \E q \in set : <<q.pair, q.subject>> = k /\ q.quality = "web"
             k == <<r.pair, r.subject>>
  <1>1. DOMAIN batch = {1, 2} /\ batch[1] = C /\ batch[2] = D OBVIOUS
  <1>2. UNION {batch[i] : i \in DOMAIN batch} = C \cup D BY <1>1
  <1>3. r \in Merged(batch) <=>
          r \in UNION {batch[i] : i \in DOMAIN batch} /\ (r.quality = "web" \/ ~WebIn(batch[Min(At(k))], k))
    BY DEF Merged
  <1>4. k \in Keys(C) <=> KeyIn(C, r) BY DEF Keys, KeyIn, SameKey
  <1>5. r \in D => k \in Keys(D) BY DEF Keys
  <1>6. r \in C => k \in Keys(C) BY DEF Keys
  <1>7. WebIn(C, k) <=> WebOf(C, r) BY DEF WebOf, SameKey
  <1>8. WebIn(D, k) <=> WebOf(D, r) BY DEF WebOf, SameKey
  <1> HIDE DEF batch, k, WebIn
  <1>9. CASE KeyIn(C, r)
    <2>1. At(k) = {1} \/ At(k) = {1, 2} BY <1>1, <1>4, <1>9
    <2>2. Min({1}) = 1 /\ Min({1, 2}) = 1 BY DEF Min
    <2>3. Min(At(k)) = 1 BY <2>1, <2>2
    <2>4. r \in Merged(batch) <=> r \in C \cup D /\ (r.quality = "web" \/ ~WebOf(C, r))
      BY <1>1, <1>2, <1>3, <1>7, <2>3
    <2> QED BY <1>9, <2>4 DEF batch
  <1>10. CASE ~KeyIn(C, r)
    <2>1. r \in C \cup D => At(k) = {2} BY <1>1, <1>4, <1>5, <1>6, <1>10
    <2>2. Min({2}) = 2 BY DEF Min
    <2>3. r \in C \cup D => Min(At(k)) = 2 BY <2>1, <2>2
    <2>4. r \in Merged(batch) <=> r \in C \cup D /\ (r.quality = "web" \/ ~WebOf(D, r))
      BY <1>1, <1>2, <1>3, <1>8, <2>3
    <2> QED BY <1>10, <2>4 DEF batch
  <1> QED BY <1>9, <1>10

\* A journal's web capture joins the error another journal of its batch quoted, as it would alone.
LEMMA BatchIsOneByOne == ASSUME StoreInv PROVE BatchIsSequential
  <1> SUFFICES ASSUME NEW f \in File, NEW g \in File, LaneOf[f] = "captures", LaneOf[g] = "captures",
                      SourceOf[g] = SourceOf[f]
               PROVE  FreshHosts(SourceOf[f], <<content[f], content[g]>>, HostRows)
                      = FreshHosts(SourceOf[f], <<content[f]>>, HostRows)
                        \cup FreshHosts(SourceOf[f], <<content[g]>>,
                               HostRows \cup Numbered(SourceOf[f], "captures",
                                                      FreshHosts(SourceOf[f], <<content[f]>>, HostRows)))
    BY DEF BatchIsSequential
  <1> DEFINE s == SourceOf[f]
             C == content[f]
             D == content[g]
             h == FreshHosts(s, <<C>>, HostRows)
             then == HostRows \cup Numbered(s, "captures", h)
  <1>1. /\ C \subseteq Record /\ \A r \in C : r.quality \in {"web", "error"}
        /\ \A r, q \in C : r.pair = q.pair /\ r.subject = q.subject /\ r.quality = q.quality => r = q
        /\ D \subseteq Record /\ \A r \in D : r.quality \in {"web", "error"}
    BY CaptureRecords
  <1>2. \A r, q \in C \cup D : SameKey(r, q) /\ r.quality = q.quality => r = q
    <2>1. \A r \in Record : r = [pair |-> r.pair, subject |-> r.subject, quality |-> r.quality] BY DEF Record
    <2> QED BY <1>1, <2>1 DEF SameKey
  <1>3. s \in Source /\ TypeOK BY StoreAssumption DEF StoreInv
  <1> HIDE DEF s, C, D
  <1>4. \A r : r \in h <=> r \in C /\ (r.quality = "web" \/ ~WebOf(C, r)) /\ r.subject # Own /\ ~Taken(HostRows, s, r)
    BY MergedOne DEF FreshHosts
  <1>5. h \subseteq Record BY <1>1, <1>4
  <1>6. \A r : r \in FreshHosts(s, <<D>>, then) <=>
          r \in D /\ (r.quality = "web" \/ ~WebOf(D, r)) /\ r.subject # Own /\ ~Taken(then, s, r)
    BY MergedOne DEF FreshHosts
  <1>7. \A r : r \in FreshHosts(s, <<C, D>>, HostRows) <=>
          /\ r \in C \cup D
          /\ r.quality = "web" \/ IF KeyIn(C, r) THEN ~WebOf(C, r) ELSE ~WebOf(D, r)
          /\ r.subject # Own /\ ~Taken(HostRows, s, r)
    BY MergedTwo DEF FreshHosts
  <1> HIDE DEF h
  <1> DEFINE new == Numbered(s, "captures", h)
  <1>8. /\ \A row \in new : row.source = s
        /\ \A row \in new : \E r \in h : row.pair = r.pair /\ row.subject = r.subject /\ row.quality = r.quality
        /\ \A r \in h : \E row \in new : row.pair = r.pair /\ row.subject = r.subject /\ row.quality = r.quality
    BY <1>3, <1>5, NumberedFacts DEF Lanes
  <1> HIDE DEF new
  <1>9. ASSUME NEW r
        PROVE  Taken(then, s, r) <=> \/ Taken(HostRows, s, r)
                                     \/ \E q \in h : SameKey(q, r) /\ (q.quality = "web" \/ r.quality # "web")
    <2>1. then = HostRows \cup new BY DEF new
    <2>2. \A row \in new : Class(row) = ClassOf[s] BY <1>8 DEF Class
    <2>3. (\E row \in new : /\ Class(row) = ClassOf[s] /\ row.pair = r.pair /\ row.subject = r.subject
                            /\ (row.quality = "web" \/ r.quality # "web"))
            <=> \E q \in h : SameKey(q, r) /\ (q.quality = "web" \/ r.quality # "web")
      BY <1>8, <2>2 DEF SameKey
    <2> HIDE DEF then
    <2> QED BY <2>1, <2>3 DEF Taken
  <1> HIDE DEF then
  <1>10. ASSUME NEW r \in FreshHosts(s, <<C, D>>, HostRows) PROVE r \in h \cup FreshHosts(s, <<D>>, then)
    <2>1. r \in C \cup D /\ r.subject # Own /\ ~Taken(HostRows, s, r) BY <1>7
    <2>2. CASE KeyIn(C, r)
      <3>1. r.quality = "web" \/ ~WebOf(C, r) BY <1>7, <2>2
      <3>2. CASE r \in C BY <1>4, <2>1, <3>1, <3>2
      <3>3. CASE r \notin C
        <4>1. PICK q \in C : SameKey(q, r) BY <2>2 DEF KeyIn
        <4>2. r.quality # q.quality /\ r \in D BY <1>2, <2>1, <3>3, <4>1
        <4>3. r.quality = "web"
          <5>1. CASE q.quality = "web" BY <3>1, <4>1, <5>1 DEF WebOf
          <5>2. CASE q.quality # "web" BY <1>1, <4>1, <4>2, <5>2
          <5> QED BY <5>1, <5>2
        <4>4. ~ \E c \in h : SameKey(c, r) /\ (c.quality = "web" \/ r.quality # "web")
          <5> SUFFICES ASSUME NEW c \in h, SameKey(c, r), c.quality = "web" PROVE FALSE BY <4>3
          <5>1. c = r BY <1>2, <1>4, <2>1, <4>3
          <5> QED BY <1>4, <3>3, <5>1
        <4> QED BY <1>6, <1>9, <2>1, <4>2, <4>3, <4>4
      <3> QED BY <3>2, <3>3
    <2>3. CASE ~KeyIn(C, r)
      <3>1. r \in D /\ (r.quality = "web" \/ ~WebOf(D, r)) BY <1>7, <2>1, <2>3 DEF KeyIn, SameKey
      <3>2. ~ \E c \in h : SameKey(c, r) BY <1>4, <2>3 DEF KeyIn
      <3> QED BY <1>6, <1>9, <2>1, <3>1, <3>2
    <2> QED BY <2>2, <2>3
  <1>11. ASSUME NEW r \in h PROVE r \in FreshHosts(s, <<C, D>>, HostRows)
    <2>1. KeyIn(C, r) BY <1>4 DEF KeyIn, SameKey
    <2> QED BY <1>4, <1>7, <2>1
  <1>12. ASSUME NEW r \in FreshHosts(s, <<D>>, then) PROVE r \in FreshHosts(s, <<C, D>>, HostRows)
    <2>1. r \in D /\ (r.quality = "web" \/ ~WebOf(D, r)) /\ r.subject # Own /\ ~Taken(then, s, r) BY <1>6
    <2>2. ~Taken(HostRows, s, r) /\ ~ \E q \in h : SameKey(q, r) /\ (q.quality = "web" \/ r.quality # "web")
      BY <1>9, <2>1
    <2>3. CASE r.quality = "web" \/ ~KeyIn(C, r) BY <1>7, <2>1, <2>2, <2>3
    <2>4. CASE r.quality # "web" /\ KeyIn(C, r)
      <3>1. \E c \in C : SameKey(c, r) /\ (c.quality = "web" \/ ~WebOf(C, c))
        <4>1. PICK q \in C : SameKey(q, r) BY <2>4 DEF KeyIn
        <4>2. CASE WebOf(C, q)
          <5>1. PICK c \in C : SameKey(c, q) /\ c.quality = "web" BY <4>2 DEF WebOf
          <5>2. SameKey(c, r) BY <4>1, <5>1 DEF SameKey
          <5> QED BY <5>1, <5>2
        <4>3. CASE ~WebOf(C, q) BY <4>1, <4>3
        <4> QED BY <4>2, <4>3
      <3>2. PICK c \in C : SameKey(c, r) /\ (c.quality = "web" \/ ~WebOf(C, c)) BY <3>1
      <3>3. ~Taken(HostRows, s, c)
        <4> SUFFICES ASSUME Taken(HostRows, s, c) PROVE Taken(HostRows, s, r) BY <2>2
        <4> QED BY <2>4, <3>2 DEF Taken, SameKey
      <3>4. c.subject # Own BY <2>1, <3>2 DEF SameKey
      <3>5. c \in h BY <1>4, <3>2, <3>3, <3>4
      <3> QED BY <2>2, <2>4, <3>2, <3>5
    <2> QED BY <2>3, <2>4
  <1> QED BY <1>10, <1>11, <1>12 DEF s, C, D, h, then

-----------------------------------------------------------------------------
\* An empty store.
LEMMA StoreStarts == Init => StoreInv
  <1> SUFFICES ASSUME Init PROVE StoreInv OBVIOUS
  <1>1. /\ rows = {} /\ next = 1 /\ pc = "idle" /\ target = {} /\ unbanks = 0 /\ kills = 0 /\ before = {}
        /\ content = [f \in File |-> {}] /\ ledger = [f \in File |-> {}] /\ approved \subseteq Source
        /\ year = [p \in Pair |-> 0] /\ hostyear = [k \in Pair \X Host |-> 0]
    BY DEF Init
  <1>2. TypeOK BY <1>1, StoreAssumption DEF TypeOK
  <1>3. ContentHeld /\ RowsNamed /\ Unbanking /\ Walls /\ OneRowPerSubject
    BY <1>1 DEF ContentHeld, RowsNamed, Unbanking, Walls, OneRowPerSubject
  <1>4. LedgeredIsHeld BY <1>1 DEF LedgeredIsHeld
  <1>5. HostsAreDated BY <1>1 DEF HostsAreDated, HostRows
  <1>6. PairCitesBest BY <1>1 DEF PairCitesBest, EarnedIsAssigned
  <1> QED BY <1>2, <1>3, <1>4, <1>5, <1>6 DEF StoreInv, ReadIsStored

\* What a bulk file's rows do to the year of a pair.
LEMMA DatedFacts ==
  ASSUME StoreInv, NEW p \in Pair, NEW fresh, \A row \in fresh : row.id \in Nat \ {0} /\ Class(row) \in Masters
  PROVE  LET y == Dated(p, fresh, rows \cup fresh)
             all == rows \cup fresh
         IN  /\ y = year[p] \/ \E row \in all :
                  row.id = y /\ row.id # 0 /\ row.pair = p /\ row.subject = Own /\ Class(row) \in Masters
             /\ (\E row \in fresh : row.pair = p /\ row.subject = Own) => y # 0
             /\ (\E row \in fresh : row.pair = p /\ row.subject = Own /\ row.quality = "web") =>
                  \E row \in all : row.id = y /\ row.quality = "web"
             /\ CitesWeb(year[p]) => y = year[p]
             /\ year[p] # 0 /\ (~ \E row \in fresh : row.pair = p /\ row.subject = Own /\ row.quality = "web")
                  => y = year[p]
  <1> DEFINE all == rows \cup fresh
             y == Dated(p, fresh, all)
             own == {row \in fresh : row.pair = p /\ row.subject = Own}
             passing == {row \in all : /\ row.pair = p /\ row.subject = Own /\ row.quality = "web"
                                       /\ Class(row) \in Masters}
             cited == {row \in all : row.id = year[p]}
  <1>1. \A row \in all : row.id \in Nat \ {0}
    BY DEF StoreInv, TypeOK, Row
  <1>2. y = IF (\E row \in own : row.quality = "web") /\ ~ \E row \in cited : row.quality = "web" THEN Lowest(passing).id
            ELSE IF year[p] = 0 /\ own # {} THEN Lowest(own).id ELSE year[p]
    BY DEF Dated
  <1> HIDE DEF y
  <1>3. CASE (\E row \in own : row.quality = "web") /\ ~ \E row \in cited : row.quality = "web"
    <2>1. y = Lowest(passing).id BY <1>2, <1>3
    <2>2. passing # {} BY <1>3
    <2>3. \A row \in passing : row.id \in Nat BY <1>1
    <2> HIDE DEF passing
    <2>4. Lowest(passing) \in passing BY <2>2, <2>3, LowestFacts
    <2> USE DEF passing
    <2>5. \E row \in all : /\ row.id = y /\ row.id # 0 /\ row.pair = p /\ row.subject = Own
                           /\ Class(row) \in Masters /\ row.quality = "web"
      BY <1>1, <2>1, <2>4
    <2>6. ~CitesWeb(year[p]) BY <1>3 DEF CitesWeb
    <2> QED BY <1>3, <2>5, <2>6 DEF y
  <1>4. CASE /\ ~ ((\E row \in own : row.quality = "web") /\ ~ \E row \in cited : row.quality = "web")
             /\ year[p] = 0 /\ own # {}
    <2>1. y = Lowest(own).id BY <1>2, <1>4
    <2>2. \A row \in own : row.id \in Nat BY <1>1
    <2>3. Lowest(own) \in own BY <1>4, <2>2, LowestFacts
    <2>4. \E row \in all : row.id = y /\ row.id # 0 /\ row.pair = p /\ row.subject = Own /\ Class(row) \in Masters
      BY <1>1, <2>1, <2>3
    <2>5. cited = {} BY <1>1, <1>4
    <2>6. ~ \E row \in own : row.quality = "web" BY <1>4, <2>5
    <2>7. ~CitesWeb(year[p]) BY <2>5 DEF CitesWeb
    <2> QED BY <1>4, <2>4, <2>6, <2>7 DEF y
  <1>5. CASE /\ ~ ((\E row \in own : row.quality = "web") /\ ~ \E row \in cited : row.quality = "web")
             /\ ~ (year[p] = 0 /\ own # {})
    <2>1. y = year[p] BY <1>2, <1>5
    <2> QED BY <1>5, <2>1 DEF y
  <1> QED BY <1>3, <1>4, <1>5

\* What a host lane's rows do to the year of a host.
LEMMA HostDatedFacts ==
  ASSUME StoreInv, NEW k \in Pair \X Host, NEW fresh, \A row \in fresh : row.id \in Nat \ {0}
  PROVE  LET y == HostDated(k, fresh)
             mine == {row \in fresh : row.pair = k[1] /\ row.subject = k[2]}
         IN  /\ y = hostyear[k] \/ \E row \in mine : row.id = y /\ row.id # 0
             /\ mine # {} => y # 0
             /\ (\E row \in mine : row.quality = "web") =>
                  \/ y = hostyear[k] /\ \A c \in With({hostyear[k]}) : c.quality # "error"
                  \/ \E row \in mine : row.id = y /\ row.quality # "error"
             /\ hostyear[k] # 0 /\ y # hostyear[k] => \E row \in mine : row.id = y /\ row.quality # "error"
  <1> DEFINE mine == {row \in fresh : row.pair = k[1] /\ row.subject = k[2]}
             good == {row \in mine : row.quality # "error"}
             y == HostDated(k, fresh)
             error == \E row \in With({hostyear[k]}) : row.quality = "error"
  <1>1. y = IF good # {} /\ (hostyear[k] = 0 \/ error) THEN Lowest(good).id
            ELSE IF mine # {} /\ hostyear[k] = 0 THEN Lowest(mine).id ELSE hostyear[k]
    BY DEF HostDated
  <1>2. \A row \in mine : row.id \in Nat \ {0} OBVIOUS
  <1> HIDE DEF y, error
  <1>3. CASE good # {} /\ (hostyear[k] = 0 \/ error)
    <2>1. y = Lowest(good).id BY <1>1, <1>3
    <2>2. \A row \in good : row.id \in Nat BY <1>2
    <2>3. Lowest(good) \in good BY <1>3, <2>2, LowestFacts
    <2>4. \E row \in mine : row.id = y /\ row.id # 0 /\ row.quality # "error" BY <1>2, <2>1, <2>3
    <2> QED BY <2>4 DEF y
  <1>4. CASE ~ (good # {} /\ (hostyear[k] = 0 \/ error)) /\ mine # {} /\ hostyear[k] = 0
    <2>1. y = Lowest(mine).id BY <1>1, <1>4
    <2>2. \A row \in mine : row.id \in Nat BY <1>2
    <2> HIDE DEF mine
    <2>3. Lowest(mine) \in mine BY <1>4, <2>2, LowestFacts
    <2>4. \E row \in mine : row.id = y /\ row.id # 0 BY <1>2, <2>1, <2>3
    <2>5. good = {} BY <1>4
    <2>6. ~ \E row \in mine : row.quality = "web" BY <2>5
    <2> QED BY <1>4, <2>4, <2>6 DEF y, mine
  <1>5. CASE ~ (good # {} /\ (hostyear[k] = 0 \/ error)) /\ ~ (mine # {} /\ hostyear[k] = 0)
    <2>1. y = hostyear[k] BY <1>1, <1>5
    <2>2. (\E row \in mine : row.quality = "web") => ~error BY <1>5
    <2> QED BY <1>5, <2>1, <2>2 DEF y, error
  <1> QED BY <1>3, <1>4, <1>5

\* What a receipt of records says is held, whatever the lane.
StoredFrom(f, records, table) ==
  \A r \in records :
    /\ LaneOf[f] # "bulk" /\ r.subject # Own =>
         \E row \in table : /\ row.lane # "bulk" /\ Class(row) = ClassOf[SourceOf[f]] /\ row.pair = r.pair
                            /\ row.subject = r.subject /\ (r.quality = "web" => row.quality = "web")
    /\ LaneOf[f] = "bulk" =>
         \E row \in table : Class(row) = ClassOf[SourceOf[f]] /\ row.pair = r.pair
    /\ LaneOf[f] = "bulk" /\ r.subject = Own /\ r.quality = "web" =>
         \E row \in table : /\ Class(row) = ClassOf[SourceOf[f]] /\ row.pair = r.pair
                            /\ row.subject = r.subject /\ row.quality = "web"

\* The receipts' promise as StoredFrom states it, and back.
LEMMA ReceiptsHeld ==
  ASSUME StoreInv, unbanks = 0, NEW f \in File PROVE StoredFrom(f, ledger[f], rows)
  <1> SUFFICES ASSUME NEW r \in ledger[f] PROVE
        /\ LaneOf[f] # "bulk" /\ r.subject # Own =>
             \E row \in rows : /\ row.lane # "bulk" /\ Class(row) = ClassOf[SourceOf[f]] /\ row.pair = r.pair
                               /\ row.subject = r.subject /\ (r.quality = "web" => row.quality = "web")
        /\ LaneOf[f] = "bulk" =>
             \E row \in rows : Class(row) = ClassOf[SourceOf[f]] /\ row.pair = r.pair
        /\ LaneOf[f] = "bulk" /\ r.subject = Own /\ r.quality = "web" =>
             \E row \in rows : /\ Class(row) = ClassOf[SourceOf[f]] /\ row.pair = r.pair
                               /\ row.subject = r.subject /\ row.quality = "web"
    BY DEF StoredFrom
  <1>1. LedgeredIsHeld BY DEF StoreInv, ReadIsStored
  <1>2. ledger[f] # {} OBVIOUS
  <1>3. CASE LaneOf[f] # "bulk"
    <2>1. r.subject = Own \/ \E row \in HostRows :
            /\ Class(row) = ClassOf[SourceOf[f]] /\ row.pair = r.pair /\ row.subject = r.subject
            /\ (r.quality = "web" => row.quality = "web")
      BY <1>1, <1>2, <1>3 DEF LedgeredIsHeld
    <2> QED BY <1>3, <2>1 DEF HostRows
  <1>4. CASE LaneOf[f] = "bulk" /\ r.subject = Own /\ r.quality = "web"
    <2>1. \E row \in rows :
            /\ Class(row) = ClassOf[SourceOf[f]] /\ row.pair = r.pair /\ row.subject = r.subject
            /\ (r.quality = "web" => row.quality = "web")
      BY <1>1, <1>2, <1>4 DEF LedgeredIsHeld
    <2> QED BY <1>4, <2>1
  <1>5. CASE LaneOf[f] = "bulk" /\ ~ (r.subject = Own /\ r.quality = "web")
    <2>1. \E row \in rows : Class(row) = ClassOf[SourceOf[f]] /\ row.pair = r.pair
      BY <1>1, <1>2, <1>5 DEF LedgeredIsHeld
    <2> QED BY <1>5, <2>1
  <1> QED BY <1>3, <1>4, <1>5

LEMMA ReceiptsStay ==
  ASSUME unbanks' = 0 => \A f \in File : StoredFrom(f, ledger'[f], rows') PROVE LedgeredIsHeld'
  <1> SUFFICES ASSUME unbanks' = 0, NEW f \in File, ledger'[f] # {}, NEW r \in ledger'[f]
               PROVE  LET wanted(row) == Class(row) = ClassOf[SourceOf[f]] /\ row.pair = r.pair
                          same(row)   == wanted(row) /\ row.subject = r.subject
                          screen(row) == r.quality = "web" => row.quality = "web"
                      IN  CASE LaneOf[f] # "bulk" -> r.subject = Own \/ \E row \in HostRows' : same(row) /\ screen(row)
                            [] LaneOf[f] = "bulk" /\ r.subject = Own /\ r.quality = "web" ->
                                 \E row \in rows' : same(row) /\ screen(row)
                            [] OTHER -> \E row \in rows' : wanted(row)
    BY DEF LedgeredIsHeld, Class
  <1>1. StoredFrom(f, ledger'[f], rows') OBVIOUS
  <1>2. CASE LaneOf[f] # "bulk" BY <1>1, <1>2 DEF StoredFrom, HostRows
  <1>3. CASE LaneOf[f] = "bulk" /\ r.subject = Own /\ r.quality = "web" BY <1>1, <1>3 DEF StoredFrom
  <1>4. CASE LaneOf[f] = "bulk" /\ ~ (r.subject = Own /\ r.quality = "web") BY <1>1, <1>4 DEF StoredFrom
  <1> QED BY <1>2, <1>3, <1>4

\* Receipts of the files that a step leaves hold over more rows.
LEMMA ReceiptsGrow ==
  ASSUME StoreInv, rows \subseteq rows', unbanks' = unbanks,
         NEW fs, \A f \in File \ fs : ledger'[f] = ledger[f],
         \A f \in File \cap fs : StoredFrom(f, ledger'[f], rows')
  PROVE  LedgeredIsHeld'
  <1>1. ASSUME unbanks' = 0, NEW f \in File PROVE StoredFrom(f, ledger'[f], rows')
    <2>1. CASE f \in fs BY <2>1
    <2>2. CASE f \notin fs
      <3>1. StoredFrom(f, ledger[f], rows) BY <1>1, ReceiptsHeld
      <3> QED BY <2>2, <3>1 DEF StoredFrom
    <2> QED BY <2>1, <2>2
  <1> QED BY <1>1, ReceiptsStay

\* What an ingest leaves alone.
LEMMA IngestFrame ==
  ASSUME StoreInv, pc = "idle", UNCHANGED <<content, pc, target, unbanks, kills, before, approved>>,
         rows' \subseteq Row, \A row \in rows' : row.id \in 1..next' - 1, next' \in Nat \ {0}, RowsNamed',
         ledger' \in [File -> SUBSET Record], year' \in [Pair -> Nat], hostyear' \in [Pair \X Host -> Nat]
  PROVE  TypeOK' /\ ContentHeld' /\ RowsNamed' /\ Unbanking'
  <1>1. TypeOK' BY DEF StoreInv, TypeOK
  <1>2. ContentHeld' BY DEF StoreInv, ContentHeld, Holds
  <1>3. Unbanking' BY DEF StoreInv, Unbanking
  <1> QED BY <1>1, <1>2, <1>3

\* A bulk file is read whole: its picks are in the table or were, and they date what they may.
LEMMA IngestFileKeeps == ASSUME StoreInv, NEW f \in File, IngestFile(f) PROVE StoreInv'
  <1> DEFINE s == SourceOf[f]
  <1>1. PICK pick \in Picks(content[f]) :
          /\ rows' = rows \cup Numbered(s, "bulk", {r \in pick : ~Taken(rows, s, r)})
          /\ next' = next + Cardinality(Numbered(s, "bulk", {r \in pick : ~Taken(rows, s, r)}))
          /\ year' = IF Dating(s)
                     THEN [p \in Pair |-> Dated(p, Numbered(s, "bulk", {r \in pick : ~Taken(rows, s, r)}),
                                                rows \cup Numbered(s, "bulk", {r \in pick : ~Taken(rows, s, r)}))]
                     ELSE year
    BY DEF IngestFile
  <1>2. /\ pc = "idle" /\ LaneOf[f] = "bulk" /\ ledger' = [ledger EXCEPT ![f] = content[f]]
        /\ UNCHANGED <<content, approved, hostyear, before, pc, target, unbanks, kills>>
    BY DEF IngestFile
  <1> DEFINE records == {r \in pick : ~Taken(rows, s, r)}
             fresh == Numbered(s, "bulk", records)
  <1>3. /\ TypeOK /\ RowsNamed /\ s \in Source /\ content[f] \subseteq Record /\ year \in [Pair -> Nat]
        /\ hostyear \in [Pair \X Host -> Nat] /\ Walls /\ ledger \in [File -> SUBSET Record]
        /\ \A row \in rows : row.id \in 1..next - 1 /\ row \in Row
        /\ next \in Nat
    BY StoreAssumption DEF StoreInv, TypeOK
  <1>4. /\ pick \subseteq content[f]
        /\ \A r \in content[f] : \E q \in pick : /\ {t \in pick : t.pair = r.pair} = {q}
                                                 /\ \/ q.subject = Own /\ q.quality = "web"
                                                    \/ ~ \E t \in content[f] : t.pair = r.pair /\ t.subject = Own /\ t.quality = "web"
    BY DEF Picks
  <1>5. records \subseteq Record BY <1>3, <1>4
  <1> HIDE DEF s, records
  <1>6. /\ \A row \in fresh : row \in Row /\ row.source = s /\ row.lane = "bulk"
        /\ \A row \in fresh : row.id \in next..(next + Cardinality(fresh) - 1) /\ row.id \in Nat \ {0}
        /\ \A r \in records : \E row \in fresh :
             row.pair = r.pair /\ row.subject = r.subject /\ row.quality = r.quality
    <2>1. "bulk" \in Lanes BY DEF Lanes
    <2> QED BY <1>3, <1>5, <2>1, NumberedFacts
  <1> USE DEF records
  <1>7. \A row \in fresh : Class(row) = ClassOf[s] BY <1>6 DEF Class
  <1>8. /\ rows' \subseteq Row /\ (\A row \in rows' : row.id \in 1..next' - 1) /\ next' \in Nat \ {0}
        /\ RowsNamed' /\ \A a \in rows, b \in fresh : a.id < b.id
    BY <1>1, <1>3, <1>5, RowsAdded DEF Lanes
  <1>9. OneRowPerSubject'
    <2>1. \A r \in records, h \in rows :
            Class(h) = ClassOf[s] /\ h.pair = r.pair /\ h.subject = r.subject
              => h.quality # "web" /\ r.quality = "web"
      BY DEF Taken
    <2>2. \A r, q \in records : r.pair = q.pair => r = q BY <1>4
    <2> QED BY <1>1, <1>3, <1>5, <2>1, <2>2, OneRowAdded DEF Lanes
  <1>10. rows' = rows \cup fresh BY <1>1
  <1>11. year' = IF Dating(s) THEN [p \in Pair |-> Dated(p, fresh, rows \cup fresh)] ELSE year BY <1>1
  <1>12. Dating(s) => \A row \in fresh : row.id \in Nat \ {0} /\ Class(row) \in Masters
    BY <1>6, <1>7 DEF Dating
  <1> HIDE DEF fresh, records
  <1>13. ASSUME NEW p \in Pair, Dating(s)
         PROVE  /\ year'[p] = year[p] \/ \E row \in rows' :
                     row.id = year'[p] /\ row.id # 0 /\ row.pair = p /\ row.subject = Own /\ Class(row) \in Masters
                /\ (\E row \in fresh : row.pair = p /\ row.subject = Own) => year'[p] # 0
                /\ (\E row \in fresh : row.pair = p /\ row.subject = Own /\ row.quality = "web") =>
                     \E row \in rows' : row.id = year'[p] /\ row.quality = "web"
                /\ CitesWeb(year[p]) => year'[p] = year[p]
                /\ year[p] # 0 /\ (~ \E row \in fresh : row.pair = p /\ row.subject = Own /\ row.quality = "web")
                     => year'[p] = year[p]
    <2>1. year'[p] = Dated(p, fresh, rows \cup fresh) BY <1>11, <1>13
    <2> QED BY <1>10, <1>12, <1>13, <2>1, DatedFacts
  <1>14. year' \in [Pair -> Nat]
    <2>1. CASE ~Dating(s) BY <1>3, <1>11, <2>1
    <2>2. CASE Dating(s)
      <3>1. year' = [p \in Pair |-> year'[p]] BY <1>11, <2>2
      <3>2. \A row \in rows' : row.id \in Nat BY <1>8
      <3>3. \A p \in Pair : year'[p] \in Nat BY <1>3, <1>13, <2>2, <3>2
      <3> QED BY <3>1, <3>3
    <2> QED BY <2>1, <2>2
  <1>15. ledger' \in [File -> SUBSET Record] BY <1>2, <1>3
  <1>16. TypeOK' /\ ContentHeld' /\ RowsNamed' /\ Unbanking'
    BY <1>2, <1>3, <1>8, <1>14, <1>15, IngestFrame
  <1>17. Walls'
    <2>1. ASSUME NEW p \in Pair, year'[p] # 0
          PROVE  \E row \in rows' : row.id = year'[p] /\ row.pair = p /\ row.subject = Own /\ Class(row) \in Masters
      <3>1. year'[p] = year[p] \/ \E row \in rows' :
              row.id = year'[p] /\ row.pair = p /\ row.subject = Own /\ Class(row) \in Masters
        <4>1. CASE Dating(s) BY <1>13, <4>1
        <4>2. CASE ~Dating(s) BY <1>11, <4>2
        <4> QED BY <4>1, <4>2
      <3>2. CASE year'[p] = year[p] BY <1>3, <1>10, <2>1, <3>2 DEF Walls
      <3> QED BY <3>1, <3>2
    <2>2. \A k \in Pair \X Host : hostyear'[k] # 0 =>
            \E row \in rows' : row.id = hostyear'[k] /\ row.pair = k[1] /\ row.subject = k[2]
      BY <1>2, <1>3, <1>10 DEF Walls
    <2> QED BY <2>1, <2>2 DEF Walls, Class
  <1>18. LedgeredIsHeld'
    <2>1. ledger'[f] = content[f] /\ \A g \in File \ {f} : ledger'[g] = ledger[g] BY <1>2, <1>3
    <2>2. ASSUME NEW r \in content[f]
          PROVE  /\ \E row \in rows' : Class(row) = ClassOf[s] /\ row.pair = r.pair
                 /\ r.subject = Own /\ r.quality = "web" =>
                      \E row \in rows' : /\ Class(row) = ClassOf[s] /\ row.pair = r.pair
                                         /\ row.subject = r.subject /\ row.quality = "web"
      <3>1. PICK q \in pick : /\ {t \in pick : t.pair = r.pair} = {q}
                              /\ \/ q.subject = Own /\ q.quality = "web"
                                 \/ ~ \E t \in content[f] : t.pair = r.pair /\ t.subject = Own /\ t.quality = "web"
        BY <1>4, <2>2
      <3>2. q.pair = r.pair BY <3>1
      <3>3. r.subject = Own /\ r.quality = "web" => q.subject = Own /\ q.quality = "web" BY <3>1
      <3>4. \E row \in rows' : /\ Class(row) = ClassOf[s] /\ row.pair = q.pair /\ row.subject = q.subject
                               /\ (q.quality = "web" => row.quality = "web")
        <4>1. CASE Taken(rows, s, q) BY <1>10, <4>1 DEF Taken
        <4>2. CASE ~Taken(rows, s, q)
          <5>1. q \in records BY <4>2 DEF records
          <5> QED BY <1>6, <1>7, <1>10, <5>1
        <4> QED BY <4>1, <4>2
      <3> QED BY <3>2, <3>3, <3>4
    <2>3. StoredFrom(f, ledger'[f], rows') BY <1>2, <2>1, <2>2 DEF StoredFrom, s
    <2>4. \A g \in File \cap {f} : StoredFrom(g, ledger'[g], rows') BY <2>3
    <2> QED BY <1>2, <1>10, <2>1, <2>4, ReceiptsGrow
  <1>19. HostsAreDated'
    <2> SUFFICES ASSUME unbanks' = 0, NEW row \in rows', row.lane # "bulk"
                 PROVE  /\ hostyear'[row.pair, row.subject] # 0
                        /\ row.quality = "web" => \A c \in rows' : c.id = hostyear'[row.pair, row.subject] => c.quality # "error"
      BY DEF HostsAreDated, HostRows, With
    <2>1. row \in rows BY <1>6, <1>10
    <2>2. row.pair \in Pair /\ row.subject \in Host
      BY <1>3, <2>1 DEF Row, Subject, RowsNamed
    <2>3. PICK k \in Pair \X Host : k = <<row.pair, row.subject>> BY <2>2
    <2>4. hostyear[k] # 0 /\ (row.quality = "web" => \A c \in rows : c.id = hostyear[k] => c.quality # "error")
      BY <1>2, <2>1, <2>3 DEF StoreInv, ReadIsStored, HostsAreDated, HostRows, With
    <2>5. PICK t \in rows : t.id = hostyear[k] BY <1>3, <2>4 DEF Walls
    <2>6. \A c \in rows' : c.id = hostyear[k] => c \in rows
      <3>1. t.id \in Int /\ \A c \in fresh : t.id < c.id BY <1>3, <1>8, <2>5
      <3> QED BY <1>10, <2>5, <3>1
    <2> QED BY <1>2, <2>3, <2>4, <2>6
  <1>20. PairCitesBest'
    <2> SUFFICES ASSUME unbanks' = 0, NEW row \in rows', row.subject = Own, Class(row) \in Masters
                 PROVE  /\ year'[row.pair] # 0
                        /\ row.quality = "web" => \E c \in rows' : c.id = year'[row.pair] /\ c.quality = "web"
      BY DEF PairCitesBest, EarnedIsAssigned, CitesWeb, Class
    <2>1. row.pair \in Pair BY <1>8 DEF Row
    <2>2. ASSUME row \in rows
          PROVE  year[row.pair] # 0 /\ (row.quality = "web" => CitesWeb(year[row.pair]))
      BY <1>2, <2>2 DEF StoreInv, ReadIsStored, PairCitesBest, EarnedIsAssigned
    <2>3. CASE row \in rows
      <3>1. CitesWeb(year[row.pair]) => \E c \in rows' : c.id = year[row.pair] /\ c.quality = "web"
        BY <1>10 DEF CitesWeb
      <3>2. CASE ~Dating(s) BY <1>11, <2>2, <2>3, <3>1, <3>2
      <3>3. CASE Dating(s)
        <4>1. year'[row.pair] = year[row.pair] \/ year'[row.pair] # 0
          BY <1>13, <2>1, <3>3
        <4> QED BY <1>13, <2>1, <2>2, <2>3, <3>1, <3>3, <4>1
      <3> QED BY <3>2, <3>3
    <2>4. CASE row \in fresh
      <3>1. Dating(s) BY <1>7, <2>4 DEF Dating
      <3> QED BY <1>13, <2>1, <2>4, <3>1
    <2> QED BY <1>10, <2>3, <2>4
  <1> QED BY <1>9, <1>16, <1>17, <1>18, <1>19, <1>20 DEF StoreInv, ReadIsStored

\* How rows of a host lane move the year of host k to y.
Moved(y, k, fresh) ==
  LET mine == {row \in fresh : row.pair = k[1] /\ row.subject = k[2]}
  IN  /\ y = hostyear[k] \/ \E row \in mine : row.id = y /\ row.id # 0
      /\ mine # {} => y # 0
      /\ (\E row \in mine : row.quality = "web") =>
           \/ y = hostyear[k] /\ \A c \in With({hostyear[k]}) : c.quality # "error"
           \/ \E row \in mine : row.id = y /\ row.quality # "error"
      /\ hostyear[k] # 0 /\ y # hostyear[k] => \E row \in mine : row.id = y /\ row.quality # "error"

\* The names of a set in order: each of them, and nothing else.
LEMMA NamesInOrder ==
  ASSUME NEW S, IsFiniteSet(S)
  PROVE  /\ Cardinality(S) \in Nat /\ SetToSeq(S) \in [1..Cardinality(S) -> S]
         /\ \A x \in S : \E i \in 1..Cardinality(S) : SetToSeq(S)[i] = x
  <1>1. Cardinality(S) \in Nat /\ ExistsBijection(1..Cardinality(S), S) BY FS_CardinalityType
  <1>2. \E g \in [1..Cardinality(S) -> S] : IsInjective(g)
    BY <1>1 DEF ExistsBijection, Bijection, Injection
  <1> DEFINE g == SetToSeq(S)
  <1>3. g \in [1..Cardinality(S) -> S] /\ IsInjective(g) BY <1>2 DEF SetToSeq
  <1> HIDE DEF g
  <1>4. IsFiniteSet(1..Cardinality(S)) /\ Cardinality(1..Cardinality(S)) = Cardinality(S)
    <2>1. 1..Cardinality(S) \in SUBSET Int BY <1>1
    <2>2. IsFiniteSet(1..Cardinality(S)) BY <1>1, FS_Interval
    <2>3. Cardinality(1..Cardinality(S)) = Cardinality(S)
      BY <1>1, FS_CountingElements, Fun_ExistsBijReflexive
    <2> QED BY <2>2, <2>3
  <1>5. g \in Injection(1..Cardinality(S), S) BY <1>3 DEF Injection
  <1>6. g \in Surjection(1..Cardinality(S), S) BY <1>4, <1>5, FS_Injection
  <1> QED BY <1>1, <1>3, <1>6 DEF Surjection, g

\* A host lane's rows leave one row for a subject.
LEMMA HostRowsOne ==
  ASSUME StoreInv, NEW s \in Source, NEW lane \in Lanes, lane # "bulk",
         NEW records, records \subseteq Record, \A r \in records : r.subject # Own /\ ~Taken(HostRows, s, r),
         \A r, q \in records : r.pair = q.pair /\ r.subject = q.subject /\ r.quality # q.quality
                                 => {r.quality, q.quality} = {"error", "web"},
         rows' = rows \cup Numbered(s, lane, records), next' = next + Cardinality(Numbered(s, lane, records))
  PROVE  OneRowPerSubject'
  <1>1. \A r \in records, h \in rows :
         Class(h) = ClassOf[s] /\ h.pair = r.pair /\ h.subject = r.subject /\ (h.lane = "bulk" <=> lane = "bulk")
           => h.quality # "web" /\ r.quality = "web"
    BY DEF Taken, HostRows
  <1>2. lane # "bulk" => \A r \in records : r.subject # Own OBVIOUS
  <1> QED BY <1>1, <1>2, OneRowAdded

\* A host lane's ingest of one source: the files fs are read, and what they say is held.
HostLaneStep(s, lane, records, fs) ==
  /\ pc = "idle" /\ lane # "bulk" /\ records \subseteq Record
  /\ \A r \in records : r.subject # Own /\ ~Taken(HostRows, s, r)
  /\ OneRowPerSubject'
  /\ rows' = rows \cup Numbered(s, lane, records) /\ next' = next + Cardinality(Numbered(s, lane, records))
  /\ hostyear' = [k \in Pair \X Host |-> hostyear'[k]]
  /\ \A k \in Pair \X Host : Moved(hostyear'[k], k, Numbered(s, lane, records))
  /\ UNCHANGED <<content, approved, year, before, pc, target, unbanks, kills>>
  /\ ledger' \in [File -> SUBSET Record] /\ \A f \in File \ fs : ledger'[f] = ledger[f]
  /\ \A f \in File \cap fs : LaneOf[f] # "bulk" /\ SourceOf[f] = s
  /\ \A f \in File \cap fs : \A r \in ledger'[f] : r.subject # Own =>
       \E q \in Record : /\ q.pair = r.pair /\ q.subject = r.subject /\ (r.quality = "web" => q.quality = "web")
                         /\ q \in records \/ Taken(HostRows, s, q)

LEMMA HostLaneKeeps ==
  ASSUME StoreInv, NEW s \in Source, NEW lane \in Lanes, NEW records, NEW fs, HostLaneStep(s, lane, records, fs)
  PROVE  StoreInv'
  <1> DEFINE fresh == Numbered(s, lane, records)
  <1>0. /\ pc = "idle" /\ lane # "bulk" /\ records \subseteq Record /\ OneRowPerSubject'
        /\ \A r \in records : r.subject # Own
        /\ rows' = rows \cup fresh /\ next' = next + Cardinality(fresh)
        /\ hostyear' = [k \in Pair \X Host |-> hostyear'[k]]
        /\ \A k \in Pair \X Host : Moved(hostyear'[k], k, fresh)
        /\ UNCHANGED <<content, approved, year, before, pc, target, unbanks, kills>>
        /\ ledger' \in [File -> SUBSET Record] /\ \A f \in File \ fs : ledger'[f] = ledger[f]
        /\ \A f \in File \cap fs : LaneOf[f] # "bulk" /\ SourceOf[f] = s
        /\ \A f \in File \cap fs : \A r \in ledger'[f] : r.subject # Own =>
             \E q \in Record : /\ q.pair = r.pair /\ q.subject = r.subject /\ (r.quality = "web" => q.quality = "web")
                               /\ q \in records \/ Taken(HostRows, s, q)
    BY DEF HostLaneStep
  <1>1. /\ TypeOK /\ RowsNamed /\ year \in [Pair -> Nat] /\ hostyear \in [Pair \X Host -> Nat] /\ Walls
        /\ \A row \in rows : row.id \in 1..next - 1 /\ row \in Row
        /\ next \in Nat
    BY DEF StoreInv, TypeOK
  <1>2. /\ \A row \in fresh : row \in Row /\ row.source = s /\ row.lane = lane /\ row.id \in Nat \ {0}
        /\ \A row \in fresh : \E r \in records :
             row.pair = r.pair /\ row.subject = r.subject /\ row.quality = r.quality
        /\ \A r \in records : \E row \in fresh :
             row.pair = r.pair /\ row.subject = r.subject /\ row.quality = r.quality
    BY <1>0, <1>1, NumberedFacts
  <1>3. /\ rows' \subseteq Row /\ (\A row \in rows' : row.id \in 1..next' - 1) /\ next' \in Nat \ {0}
        /\ RowsNamed'
    BY <1>0, RowsAdded
  <1>5. rows' = rows \cup fresh BY <1>0
  <1>6. \A k \in Pair \X Host : Moved(hostyear'[k], k, fresh) BY <1>0
  <1> HIDE DEF fresh
  <1>7. \A row \in fresh : row.subject # Own /\ Class(row) = ClassOf[s] BY <1>0, <1>2 DEF Class
  <1>8. hostyear' \in [Pair \X Host -> Nat]
    <2>1. ASSUME NEW k \in Pair \X Host, NEW y, Moved(y, k, fresh) PROVE y \in Nat
      BY <1>1, <1>2, <2>1 DEF Moved
    <2> QED BY <1>0, <1>6, <2>1
  <1>9. TypeOK' /\ ContentHeld' /\ RowsNamed' /\ Unbanking'
    BY <1>0, <1>1, <1>3, <1>8, IngestFrame
  <1>10. Walls'
    <2>1. \A p \in Pair : year'[p] # 0 =>
            \E row \in rows' : row.id = year'[p] /\ row.pair = p /\ row.subject = Own /\ Class(row) \in Masters
      BY <1>0, <1>1, <1>5 DEF Walls
    <2>2. ASSUME NEW k \in Pair \X Host, NEW y, Moved(y, k, fresh), y # 0
          PROVE  \E row \in rows' : row.id = y /\ row.pair = k[1] /\ row.subject = k[2]
      <3>1. CASE y = hostyear[k] BY <1>1, <1>5, <2>2, <3>1 DEF Walls
      <3>2. CASE y # hostyear[k] BY <1>5, <2>2, <3>2 DEF Moved
      <3> QED BY <3>1, <3>2
    <2>3. \A k \in Pair \X Host : hostyear'[k] # 0 =>
            \E row \in rows' : row.id = hostyear'[k] /\ row.pair = k[1] /\ row.subject = k[2]
      BY <1>6, <2>2
    <2> QED BY <2>1, <2>3 DEF Walls, Class
  <1>11. LedgeredIsHeld'
    <2>1. ASSUME NEW f \in File \cap fs PROVE StoredFrom(f, ledger'[f], rows')
      <3>1. ASSUME NEW r \in ledger'[f], r.subject # Own
            PROVE  \E row \in rows' : /\ row.lane # "bulk" /\ Class(row) = ClassOf[s] /\ row.pair = r.pair
                                      /\ row.subject = r.subject /\ (r.quality = "web" => row.quality = "web")
        <4>1. PICK q \in Record :
                /\ q.pair = r.pair /\ q.subject = r.subject /\ (r.quality = "web" => q.quality = "web")
                /\ q \in records \/ Taken(HostRows, s, q)
          BY <1>0, <2>1, <3>1
        <4>2. CASE q \in records BY <1>0, <1>2, <1>5, <1>7, <4>1, <4>2
        <4>3. CASE Taken(HostRows, s, q) BY <1>5, <4>1, <4>3 DEF Taken, HostRows
        <4> QED BY <4>1, <4>2, <4>3
      <3> QED BY <1>0, <2>1, <3>1 DEF StoredFrom
    <2> QED BY <1>0, <1>5, <2>1, ReceiptsGrow
  <1>12. HostsAreDated'
    <2> SUFFICES ASSUME unbanks' = 0, NEW row \in rows', row.lane # "bulk"
                 PROVE  /\ hostyear'[row.pair, row.subject] # 0
                        /\ row.quality = "web" => \A c \in rows' : c.id = hostyear'[row.pair, row.subject] => c.quality # "error"
      BY Zenon DEF HostsAreDated, HostRows, With
    <2>1. row.pair \in Pair /\ row.subject \in Host
      BY <1>3 DEF Row, Subject, RowsNamed
    <2>2. PICK k \in Pair \X Host : k = <<row.pair, row.subject>> BY <2>1
    <2>3. k[1] = row.pair /\ k[2] = row.subject BY <2>2
    <2> DEFINE y == hostyear'[k]
    <2>4. Moved(y, k, fresh) BY <1>6
    <2> HIDE DEF y
    <2>5. \A a, b \in rows' : a.id = b.id => a = b BY <1>3 DEF RowsNamed
    <2>6. hostyear[k] # 0 => \E t \in rows : t.id = hostyear[k] BY <1>1 DEF Walls
    <2>7. hostyear[k] # 0 /\ (\A c \in rows : c.id = hostyear[k] => c.quality # "error")
            => \A c \in rows' : c.id = hostyear[k] => c.quality # "error"
      BY <1>5, <2>5, <2>6
    <2>8. y # 0 /\ (row.quality = "web" => \A c \in rows' : c.id = y => c.quality # "error")
      <3>1. CASE row \in rows
        <4>1. hostyear[k] # 0 /\ (row.quality = "web" => \A c \in rows : c.id = hostyear[k] => c.quality # "error")
          BY <1>0, <2>2, <3>1 DEF StoreInv, ReadIsStored, HostsAreDated, HostRows, With
        <4>2. CASE y = hostyear[k] BY <2>7, <4>1, <4>2
        <4>3. CASE y # hostyear[k]
          <5>1. \E t \in fresh : t.id = y /\ t.id # 0 /\ t.quality # "error"
            BY <1>2, <2>4, <4>1, <4>3 DEF Moved
          <5> QED BY <1>5, <2>5, <5>1
        <4> QED BY <4>2, <4>3
      <3>2. CASE row \in fresh
        <4>1. y # 0 BY <2>3, <2>4, <3>2 DEF Moved
        <4>2. ASSUME row.quality = "web"
              PROVE  \/ y = hostyear[k] /\ \A c \in With({hostyear[k]}) : c.quality # "error"
                     \/ \E t \in fresh : t.id = y /\ t.quality # "error"
          BY <2>3, <2>4, <3>2, <4>2 DEF Moved
        <4>3. ASSUME row.quality = "web" PROVE \A c \in rows' : c.id = y => c.quality # "error"
          <5>1. CASE y = hostyear[k] /\ \A c \in With({hostyear[k]}) : c.quality # "error"
            <6>1. \A c \in rows : c.id = hostyear[k] => c.quality # "error" BY <5>1 DEF With
            <6> QED BY <2>7, <4>1, <5>1, <6>1
          <5>2. CASE \E t \in fresh : t.id = y /\ t.quality # "error" BY <1>5, <2>5, <5>2
          <5> QED BY <4>2, <4>3, <5>1, <5>2
        <4> QED BY <4>1, <4>3
      <3> QED BY <1>5, <3>1, <3>2
    <2> QED BY <2>2, <2>8 DEF y
  <1>13. PairCitesBest'
    <2> SUFFICES ASSUME unbanks' = 0, NEW row \in rows', row.subject = Own, Class(row) \in Masters
                 PROVE  /\ year'[row.pair] # 0
                        /\ row.quality = "web" => \E c \in rows' : c.id = year'[row.pair] /\ c.quality = "web"
      BY DEF PairCitesBest, EarnedIsAssigned, CitesWeb, Class
    <2>1. row \in rows BY <1>5, <1>7
    <2>2. year[row.pair] # 0 /\ (row.quality = "web" => CitesWeb(year[row.pair]))
      BY <1>0, <2>1 DEF StoreInv, ReadIsStored, PairCitesBest, EarnedIsAssigned
    <2> QED BY <1>0, <1>5, <2>2 DEF CitesWeb
  <1> QED BY <1>0, <1>9, <1>10, <1>11, <1>12, <1>13 DEF StoreInv, ReadIsStored

\* A batch of journals: what one of them holds is quoted, by it or by another, or was held.
LEMMA FoldJournalsKeeps ==
  ASSUME StoreInv, NEW s \in Source, NEW names \in SUBSET File, FoldJournals(s, names) PROVE StoreInv'
  <1> DEFINE order == SetToSeq(names)
             n == Cardinality(names)
             batch == [i \in DOMAIN order |-> content[order[i]]]
             records == FreshHosts(s, batch, HostRows)
             fresh == Numbered(s, "captures", records)
  <1>1. /\ rows' = rows \cup fresh /\ next' = next + Cardinality(fresh)
        /\ hostyear' = [k \in Pair \X Host |-> HostDated(k, fresh)]
        /\ pc = "idle" /\ UNCHANGED <<content, approved, year, before, pc, target, unbanks, kills>>
        /\ ledger' = [f \in File |-> IF f \in names THEN content[f] ELSE ledger[f]]
        /\ \A f \in names : LaneOf[f] = "captures" /\ SourceOf[f] = s
    BY DEF FoldJournals
  <1>2. /\ TypeOK /\ content \in [File -> SUBSET Record] /\ ledger \in [File -> SUBSET Record] /\ IsFiniteSet(names)
        /\ "captures" \in Lanes
    BY StoreAssumption, FS_Subset DEF StoreInv, TypeOK, Lanes
  <1>3. /\ n \in Nat /\ order \in [1..n -> names] /\ \A f \in names : \E i \in 1..n : order[i] = f
    BY <1>2, NamesInOrder
  <1> HIDE DEF order, n
  <1>4. batch \in [1..n -> SUBSET Record] /\ \A i \in 1..n : batch[i] = content[order[i]]
    BY <1>2, <1>3
  <1> HIDE DEF batch
  <1>5. /\ \A r \in Merged(batch) : \E i \in 1..n : r \in batch[i]
        /\ \A i \in 1..n : \A r \in batch[i] : r.quality = "web" => r \in Merged(batch)
        /\ \A i \in 1..n : \A r \in batch[i] : r \in Merged(batch) \/
             \E w \in Merged(batch) : w.pair = r.pair /\ w.subject = r.subject /\ w.quality = "web"
    BY <1>3, <1>4, MergedFacts
  <1>6. \A r \in Merged(batch) : r \in Record /\ r.quality \in {"web", "error"}
    <2> SUFFICES ASSUME NEW r \in Merged(batch) PROVE r \in Record /\ r.quality \in {"web", "error"} OBVIOUS
    <2>1. PICK f \in names : r \in content[f] BY <1>3, <1>4, <1>5
    <2> QED BY <1>1, <2>1, CaptureRecords
  <1>7. \A r : r \in records <=> r \in Merged(batch) /\ r.subject # Own /\ ~Taken(HostRows, s, r)
    BY DEF FreshHosts
  <1> HIDE DEF records, fresh
  <1>8. records \subseteq Record /\ \A r \in records : r.subject # Own /\ ~Taken(HostRows, s, r) BY <1>6, <1>7
  <1>9. \A r, q \in records : r.pair = q.pair /\ r.subject = q.subject /\ r.quality # q.quality
                                => {r.quality, q.quality} = {"error", "web"}
    BY <1>6, <1>7
  <1>10. rows' = rows \cup Numbered(s, "captures", records) /\ next' = next + Cardinality(Numbered(s, "captures", records))
    BY <1>1 DEF fresh
  <1>11. OneRowPerSubject' BY <1>2, <1>8, <1>9, <1>10, HostRowsOne
  <1>12. \A row \in fresh : row.id \in Nat \ {0} BY <1>2, <1>8, NumberedFacts DEF fresh
  <1>13. \A k \in Pair \X Host : Moved(HostDated(k, fresh), k, fresh) BY <1>12, HostDatedFacts DEF Moved
  <1>14. hostyear' = [k \in Pair \X Host |-> hostyear'[k]] /\ \A k \in Pair \X Host : Moved(hostyear'[k], k, fresh)
    BY <1>1, <1>13
  <1>15. /\ ledger' \in [File -> SUBSET Record]
         /\ \A f \in File \ names : ledger'[f] = ledger[f]
         /\ \A f \in File \cap names : LaneOf[f] # "bulk" /\ SourceOf[f] = s
    BY <1>1, <1>2
  <1>16. ASSUME NEW f \in File \cap names, NEW r \in ledger'[f], r.subject # Own
         PROVE  \E q \in Record : /\ q.pair = r.pair /\ q.subject = r.subject
                                  /\ (r.quality = "web" => q.quality = "web")
                                  /\ q \in records \/ Taken(HostRows, s, q)
    <2>1. r \in content[f] BY <1>1, <1>16
    <2>2. PICK i \in 1..n : r \in batch[i] BY <1>3, <1>4, <2>1
    <2>3. \E q \in Merged(batch) : /\ q.pair = r.pair /\ q.subject = r.subject
                                   /\ (r.quality = "web" => q.quality = "web")
      BY <1>5, <2>2
    <2> QED BY <1>6, <1>7, <1>16, <2>3
  <1>17. HostLaneStep(s, "captures", records, names)
    BY <1>1, <1>2, <1>8, <1>10, <1>11, <1>14, <1>15, <1>16 DEF HostLaneStep, fresh
  <1> QED BY <1>2, <1>17, HostLaneKeeps

\* Messages name hosts by no web capture: they date a host without a year and move no other.
LEMMA IngestItemsKeeps == ASSUME StoreInv, NEW f \in File, IngestItems(f) PROVE StoreInv'
  <1> DEFINE s == SourceOf[f]
             records == {r \in content[f] : ~Taken(HostRows, s, r)}
             fresh == Numbered(s, "items", records)
             mine(k) == {row \in fresh : row.pair = k[1] /\ row.subject = k[2]}
  <1>1. /\ rows' = rows \cup fresh /\ next' = next + Cardinality(fresh)
        /\ hostyear' = [k \in Pair \X Host |->
             IF mine(k) # {} /\ hostyear[k] = 0 THEN Lowest(mine(k)).id ELSE hostyear[k]]
        /\ pc = "idle" /\ UNCHANGED <<content, approved, year, before, pc, target, unbanks, kills>>
        /\ ledger' = [ledger EXCEPT ![f] = content[f]] /\ LaneOf[f] = "items"
    BY DEF IngestItems
  <1>2. /\ TypeOK /\ content \in [File -> SUBSET Record] /\ ledger \in [File -> SUBSET Record] /\ s \in Source
        /\ "items" \in Lanes
    BY StoreAssumption DEF StoreInv, TypeOK, Lanes
  <1>3. content[f] \subseteq {r \in Record : r.subject # Own /\ r.quality = "other"}
    BY <1>1 DEF StoreInv, ContentHeld, Holds
  <1> HIDE DEF s
  <1>4. /\ \A r : r \in records <=> r \in content[f] /\ ~Taken(HostRows, s, r)
        /\ records \subseteq Record /\ \A r \in records : r.subject # Own /\ ~Taken(HostRows, s, r) /\ r.quality = "other"
    BY <1>3
  <1> HIDE DEF records, fresh
  <1>5. rows' = rows \cup Numbered(s, "items", records) /\ next' = next + Cardinality(Numbered(s, "items", records))
    BY <1>1 DEF fresh
  <1>6. OneRowPerSubject'
    <2>1. \A r, q \in records : r.pair = q.pair /\ r.subject = q.subject /\ r.quality # q.quality
                                  => {r.quality, q.quality} = {"error", "web"}
      BY <1>4
    <2> QED BY <1>2, <1>4, <1>5, <2>1, HostRowsOne
  <1>7. /\ \A row \in fresh : row.id \in Nat \ {0}
        /\ \A row \in fresh : \E r \in records : row.quality = r.quality
    BY <1>2, <1>4, NumberedFacts DEF fresh
  <1>8. ASSUME NEW k \in Pair \X Host PROVE Moved(hostyear'[k], k, fresh)
    <2> DEFINE y == hostyear'[k]
    <2>1. y = IF mine(k) # {} /\ hostyear[k] = 0 THEN Lowest(mine(k)).id ELSE hostyear[k] BY <1>1
    <2> HIDE DEF y
    <2>2. \A row \in mine(k) : row.id \in Nat \ {0} /\ row.quality # "web" BY <1>4, <1>7
    <2>3. CASE mine(k) # {} /\ hostyear[k] = 0
      <3> HIDE DEF mine
      <3>1. Lowest(mine(k)) \in mine(k) BY <2>2, <2>3, LowestFacts
      <3>2. \E row \in mine(k) : row.id = y /\ row.id # 0 BY <2>1, <2>2, <2>3, <3>1
      <3> QED BY <2>2, <2>3, <3>2 DEF Moved, mine, y
    <2>4. CASE ~ (mine(k) # {} /\ hostyear[k] = 0)
      <3>1. y = hostyear[k] BY <2>1, <2>4
      <3> QED BY <2>2, <2>4, <3>1 DEF Moved, y
    <2> QED BY <2>3, <2>4
  <1>9. hostyear' = [k \in Pair \X Host |-> hostyear'[k]] BY <1>1
  <1>10. /\ ledger' \in [File -> SUBSET Record] /\ ledger'[f] = content[f]
         /\ \A g \in File \ {f} : ledger'[g] = ledger[g]
         /\ \A g \in File \cap {f} : LaneOf[g] # "bulk" /\ SourceOf[g] = s
    BY <1>1, <1>2 DEF s
  <1>11. ASSUME NEW g \in File \cap {f}, NEW r \in ledger'[g], r.subject # Own
         PROVE  \E q \in Record : /\ q.pair = r.pair /\ q.subject = r.subject
                                  /\ (r.quality = "web" => q.quality = "web")
                                  /\ q \in records \/ Taken(HostRows, s, q)
    <2>1. r \in content[f] BY <1>10, <1>11
    <2> QED BY <1>3, <1>4, <2>1
  <1>12. HostLaneStep(s, "items", records, {f})
    BY <1>1, <1>2, <1>4, <1>5, <1>6, <1>8, <1>9, <1>10, <1>11 DEF HostLaneStep, fresh
  <1> QED BY <1>2, <1>12, HostLaneKeeps

-----------------------------------------------------------------------------
\* What the invariant says of the tables and the receipts.
StoreRest ==
  /\ RowsNamed /\ Unbanking /\ Walls /\ OneRowPerSubject
  /\ LedgeredIsHeld /\ HostsAreDated /\ PairCitesBest

LEMMA RestFrame ==
  ASSUME StoreInv, UNCHANGED <<ledger, rows, year, hostyear, pc, target, unbanks>> PROVE StoreRest'
  <1>1. UNCHANGED <<ledger, rows, year, hostyear, pc, target, unbanks>> OBVIOUS
  <1>2. RowsNamed' BY <1>1 DEF StoreInv, RowsNamed
  <1>3. Unbanking' BY <1>1 DEF StoreInv, Unbanking, Ids
  <1>4. Walls' BY <1>1 DEF StoreInv, Walls, Class
  <1>5. OneRowPerSubject' BY <1>1 DEF StoreInv, OneRowPerSubject, Class
  <1>6. LedgeredIsHeld'
    <2>1. ASSUME unbanks' = 0, NEW f \in File PROVE StoredFrom(f, ledger'[f], rows')
      <3>1. StoredFrom(f, ledger[f], rows) BY <1>1, <2>1, ReceiptsHeld
      <3> QED BY <1>1, <3>1
    <2> QED BY <2>1, ReceiptsStay
  <1>7. HostsAreDated' BY <1>1, Zenon DEF StoreInv, ReadIsStored, HostsAreDated, HostRows, With
  <1>8. PairCitesBest'
    BY <1>1, Zenon DEF StoreInv, ReadIsStored, PairCitesBest, EarnedIsAssigned, CitesWeb, Class
  <1> QED BY <1>2, <1>3, <1>4, <1>5, <1>6, <1>7, <1>8 DEF StoreRest

\* The world's steps touch no table.
LEMMA LandKeeps == ASSUME StoreInv, NEW f \in File, Land(f) PROVE StoreInv'
  <1>1. PICK more \in SUBSET (Holds(f) \ content[f]) : content' = [content EXCEPT ![f] = @ \cup more]
    BY DEF Land
  <1>2. UNCHANGED <<ledger, approved, tables, before, pc, target, unbanks, kills>> BY DEF Land
  <1>3. Holds(f) \subseteq Record BY DEF Holds
  <1>4. content \in [File -> SUBSET Record] /\ content[f] \subseteq Holds(f) /\ ContentHeld
    BY DEF StoreInv, TypeOK, ContentHeld
  <1>5. content' \in [File -> SUBSET Record] BY <1>1, <1>3, <1>4
  <1>6. TypeOK' BY <1>2, <1>5 DEF StoreInv, TypeOK, tables
  <1>7. ContentHeld'
    <2>1. ASSUME NEW g \in File PROVE content'[g] \subseteq Holds(g)
      <3>1. CASE g = f
        <4>1. content'[f] = content[f] \cup more BY <1>1, <1>4
        <4> QED BY <1>4, <3>1, <4>1
      <3>2. CASE g # f
        <4>1. content'[g] = content[g] BY <1>1, <1>4, <2>1, <3>2
        <4> QED BY <1>4, <2>1, <4>1 DEF ContentHeld
      <3> QED BY <3>1, <3>2
    <2> QED BY <2>1 DEF ContentHeld, Holds
  <1>8. UNCHANGED <<ledger, rows, year, hostyear, next, approved, before, pc, target, unbanks, kills>>
    BY <1>2 DEF tables
  <1>9. StoreRest' BY <1>8, RestFrame
  <1> QED BY <1>6, <1>7, <1>9 DEF StoreInv, StoreRest, ReadIsStored

\* The steps that take a source back leave the receipts' promise to their own bank.
LEMMA UnbankedReads == ASSUME unbanks' # 0 PROVE ReadIsStored'
  BY DEF ReadIsStored, LedgeredIsHeld, HostsAreDated, PairCitesBest

LEMMA ApproveKeeps == ASSUME StoreInv, NEW s \in Source, Approve(s) PROVE StoreInv'
  <1>1. /\ approved' = approved \cup {s}
        /\ UNCHANGED <<content, ledger, rows, year, hostyear, next, before, pc, target, unbanks, kills>>
    BY DEF Approve, tables
  <1>2. TypeOK' BY <1>1 DEF StoreInv, TypeOK
  <1>3. ContentHeld' BY <1>1 DEF StoreInv, ContentHeld, Holds
  <1>4. StoreRest' BY <1>1, RestFrame
  <1> QED BY <1>2, <1>3, <1>4 DEF StoreInv, StoreRest, ReadIsStored

LEMMA BeginBankKeeps == ASSUME StoreInv, BeginBank PROVE StoreInv'
  <1>1. /\ before' \subseteq Source
        /\ UNCHANGED <<content, ledger, approved, rows, year, hostyear, next, pc, target, unbanks, kills>>
    BY DEF BeginBank, tables
  <1>2. TypeOK' BY <1>1 DEF StoreInv, TypeOK
  <1>3. ContentHeld' BY <1>1 DEF StoreInv, ContentHeld, Holds
  <1>4. StoreRest' BY <1>1, RestFrame
  <1> QED BY <1>2, <1>3, <1>4 DEF StoreInv, StoreRest, ReadIsStored

\* A red gate takes a source back: the years first, so that none cites a row that is gone.
LEMMA UnbankKeeps == ASSUME StoreInv, NEW s \in Source, Unbank(s) PROVE StoreInv'
  <1>1. /\ unbanks' = unbanks + 1 /\ unbanks < MaxUnbanks /\ target' = {s} /\ pc' = "hostyears"
        /\ approved' = approved \ {s}
        /\ UNCHANGED <<content, ledger, rows, year, hostyear, next, before, kills>>
    BY DEF Unbank, tables
  <1>2. unbanks \in Nat /\ MaxUnbanks \in Nat BY StoreAssumption DEF StoreInv, TypeOK
  <1>3. unbanks' \in 0..MaxUnbanks /\ unbanks' # 0 BY <1>1, <1>2
  <1>4. TypeOK' BY <1>1, <1>3 DEF StoreInv, TypeOK
  <1>5. ContentHeld' BY <1>1 DEF StoreInv, ContentHeld, Holds
  <1>6. Unbanking' BY <1>1, <1>3 DEF Unbanking
  <1>7. RowsNamed' /\ Walls' /\ OneRowPerSubject'
    BY <1>1 DEF StoreInv, RowsNamed, Walls, OneRowPerSubject, Class
  <1>8. ReadIsStored' BY <1>3, UnbankedReads
  <1> QED BY <1>4, <1>5, <1>6, <1>7, <1>8 DEF StoreInv

\* A bank that is taking a source back has begun to.
LEMMA TakingBack == ASSUME StoreInv, pc # "idle" PROVE unbanks # 0
  BY DEF StoreInv, Unbanking

LEMMA DeleteHostYearsKeeps == ASSUME StoreInv, DeleteHostYears PROVE StoreInv'
  <1>1. /\ pc = "hostyears" /\ pc' = "years"
        /\ hostyear' = [k \in Pair \X Host |-> IF hostyear[k] \in Ids THEN 0 ELSE hostyear[k]]
        /\ UNCHANGED <<content, ledger, approved, rows, year, next, before, target, unbanks, kills>>
    BY DEF DeleteHostYears
  <1>2. hostyear \in [Pair \X Host -> Nat] /\ rows \subseteq Row /\ (\A row \in rows : row.id \in 1..next - 1)
    BY DEF StoreInv, TypeOK
  <1>3. unbanks' # 0 BY <1>1, TakingBack
  <1>4. 0 \notin Ids BY <1>2 DEF Ids
  <1>5. Ids' = Ids BY <1>1 DEF Ids
  <1>6. \A k \in Pair \X Host : /\ hostyear'[k] \in Nat /\ hostyear'[k] \notin Ids
                                /\ hostyear'[k] # 0 => hostyear'[k] = hostyear[k]
    BY <1>1, <1>2, <1>4
  <1>7. TypeOK'
    <2>1. hostyear' \in [Pair \X Host -> Nat] BY <1>1, <1>6
    <2> QED BY <1>1, <2>1 DEF StoreInv, TypeOK
  <1>8. ContentHeld' BY <1>1 DEF StoreInv, ContentHeld, Holds
  <1>9. Unbanking'
    <2>1. \A k \in Pair \X Host : hostyear'[k] \notin Ids' BY <1>5, <1>6
    <2> QED BY <1>1, <1>3, <2>1, Zenon DEF Unbanking
  <1>10. RowsNamed' /\ OneRowPerSubject' BY <1>1 DEF StoreInv, RowsNamed, OneRowPerSubject, Class
  <1>11. Walls'
    <2>1. \A k \in Pair \X Host : hostyear'[k] # 0 =>
            \E row \in rows : row.id = hostyear'[k] /\ row.pair = k[1] /\ row.subject = k[2]
      BY <1>6 DEF StoreInv, Walls
    <2>2. \A p \in Pair : year[p] # 0 =>
            \E row \in rows : row.id = year[p] /\ row.pair = p /\ row.subject = Own /\ Class(row) \in Masters
      BY DEF StoreInv, Walls
    <2> QED BY <1>1, <2>1, <2>2 DEF Walls, Class
  <1>12. ReadIsStored' BY <1>3, UnbankedReads
  <1> QED BY <1>7, <1>8, <1>9, <1>10, <1>11, <1>12 DEF StoreInv

LEMMA DeleteYearsKeeps == ASSUME StoreInv, DeleteYears PROVE StoreInv'
  <1>1. /\ pc = "years" /\ pc' = "evidence"
        /\ year' = [p \in Pair |-> IF year[p] \in Ids THEN 0 ELSE year[p]]
        /\ UNCHANGED <<content, ledger, approved, rows, hostyear, next, before, target, unbanks, kills>>
    BY DEF DeleteYears
  <1>2. year \in [Pair -> Nat] /\ rows \subseteq Row /\ (\A row \in rows : row.id \in 1..next - 1)
    BY DEF StoreInv, TypeOK
  <1>3. unbanks' # 0 BY <1>1, TakingBack
  <1>4. 0 \notin Ids BY <1>2 DEF Ids
  <1>5. Ids' = Ids BY <1>1 DEF Ids
  <1>6. \A p \in Pair : year'[p] \in Nat /\ year'[p] \notin Ids /\ (year'[p] # 0 => year'[p] = year[p])
    BY <1>1, <1>2, <1>4
  <1>7. TypeOK'
    <2>1. year' \in [Pair -> Nat] BY <1>1, <1>6
    <2> QED BY <1>1, <2>1 DEF StoreInv, TypeOK
  <1>8. ContentHeld' BY <1>1 DEF StoreInv, ContentHeld, Holds
  <1>9. Unbanking'
    <2>1. \A k \in Pair \X Host : hostyear'[k] \notin Ids' BY <1>1, <1>5 DEF StoreInv, Unbanking
    <2>2. \A p \in Pair : year'[p] \notin Ids' BY <1>5, <1>6
    <2> QED BY <1>1, <1>3, <2>1, <2>2, Zenon DEF Unbanking
  <1>10. RowsNamed' /\ OneRowPerSubject' BY <1>1 DEF StoreInv, RowsNamed, OneRowPerSubject, Class
  <1>11. Walls'
    <2>1. \A k \in Pair \X Host : hostyear[k] # 0 =>
            \E row \in rows : row.id = hostyear[k] /\ row.pair = k[1] /\ row.subject = k[2]
      BY DEF StoreInv, Walls
    <2>2. \A p \in Pair : year'[p] # 0 =>
            \E row \in rows : row.id = year'[p] /\ row.pair = p /\ row.subject = Own /\ Class(row) \in Masters
      BY <1>6 DEF StoreInv, Walls
    <2> QED BY <1>1, <2>1, <2>2 DEF Walls, Class
  <1>12. ReadIsStored' BY <1>3, UnbankedReads
  <1> QED BY <1>7, <1>8, <1>9, <1>10, <1>11, <1>12 DEF StoreInv

LEMMA DeleteEvidenceKeeps == ASSUME StoreInv, DeleteEvidence PROVE StoreInv'
  <1>1. /\ pc = "evidence" /\ pc' = "receipts"
        /\ rows' = {row \in rows : row.source \notin target}
        /\ UNCHANGED <<content, ledger, approved, year, hostyear, next, before, target, unbanks, kills>>
    BY DEF DeleteEvidence
  <1>2. unbanks' # 0 BY <1>1, TakingBack
  <1>3. \A row \in rows : row \in rows' \/ row.id \in Ids BY <1>1 DEF Ids
  <1>4. Ids' = {} BY <1>1 DEF Ids
  <1>5. TypeOK' BY <1>1 DEF StoreInv, TypeOK
  <1>6. ContentHeld' BY <1>1 DEF StoreInv, ContentHeld, Holds
  <1>7. Unbanking' BY <1>1, <1>2, <1>4 DEF Unbanking
  <1>8. RowsNamed' /\ OneRowPerSubject' BY <1>1 DEF StoreInv, RowsNamed, OneRowPerSubject, Class
  <1>9. Walls'
    <2>1. \A k \in Pair \X Host : hostyear[k] # 0 =>
            \E row \in rows' : row.id = hostyear[k] /\ row.pair = k[1] /\ row.subject = k[2]
      BY <1>1, <1>3 DEF StoreInv, Walls, Unbanking
    <2>2. \A p \in Pair : year[p] # 0 =>
            \E row \in rows' : row.id = year[p] /\ row.pair = p /\ row.subject = Own /\ Class(row) \in Masters
      BY <1>1, <1>3 DEF StoreInv, Walls, Unbanking
    <2> QED BY <1>1, <2>1, <2>2 DEF Walls, Class
  <1>10. ReadIsStored' BY <1>2, UnbankedReads
  <1> QED BY <1>5, <1>6, <1>7, <1>8, <1>9, <1>10 DEF StoreInv

\* A step that only ends the unbank, and may drop receipts.
LEMMA EndKeeps ==
  ASSUME StoreInv, pc # "idle", pc' = "idle", target' = {}, ledger' \in [File -> SUBSET Record],
         kills' \in 0..MaxKills, UNCHANGED <<content, approved, tables, before, unbanks>>
  PROVE  StoreInv'
  <1>1. UNCHANGED <<rows, year, hostyear, next>> BY DEF tables
  <1>2. unbanks' # 0 BY TakingBack
  <1>3. TypeOK' BY <1>1 DEF StoreInv, TypeOK
  <1>4. ContentHeld' BY DEF StoreInv, ContentHeld, Holds
  <1>5. Unbanking' BY <1>2 DEF Unbanking
  <1>6. RowsNamed' /\ Walls' /\ OneRowPerSubject'
    BY <1>1 DEF StoreInv, RowsNamed, Walls, OneRowPerSubject, Class
  <1>7. ReadIsStored' BY <1>2, UnbankedReads
  <1> QED BY <1>3, <1>4, <1>5, <1>6, <1>7 DEF StoreInv

LEMMA DeleteReceiptsKeeps == ASSUME StoreInv, DeleteReceipts PROVE StoreInv'
  <1>1. ledger \in [File -> SUBSET Record] /\ kills \in 0..MaxKills BY DEF StoreInv, TypeOK
  <1>2. /\ pc = "receipts" /\ pc' = "idle" /\ target' = {}
        /\ ledger' = [f \in File |-> IF SourceOf[f] \in target THEN {} ELSE ledger[f]]
        /\ UNCHANGED <<content, approved, tables, before, unbanks, kills>>
    BY DEF DeleteReceipts
  <1>3. ledger' \in [File -> SUBSET Record] BY <1>1, <1>2
  <1>4. pc # "idle" /\ kills' \in 0..MaxKills BY <1>1, <1>2
  <1> QED BY <1>2, <1>3, <1>4, EndKeeps

LEMMA KillKeeps == ASSUME StoreInv, Kill PROVE StoreInv'
  <1>1. ledger \in [File -> SUBSET Record] /\ kills \in 0..MaxKills /\ MaxKills \in Nat
    BY StoreAssumption DEF StoreInv, TypeOK
  <1>2. /\ pc # "idle" /\ kills < MaxKills /\ kills' = kills + 1 /\ pc' = "idle" /\ target' = {}
        /\ UNCHANGED <<content, ledger, approved, tables, before, unbanks>>
    BY DEF Kill
  <1>3. kills' \in 0..MaxKills BY <1>1, <1>2
  <1>4. ledger' \in [File -> SUBSET Record] BY <1>1, <1>2
  <1> QED BY <1>2, <1>3, <1>4, EndKeeps

LEMMA StandStillKeeps == ASSUME StoreInv, UNCHANGED vars PROVE StoreInv'
  <1>1. UNCHANGED <<content, ledger, approved, rows, year, hostyear, next, before, pc, target, unbanks, kills>>
    BY DEF vars, tables
  <1>2. TypeOK' BY <1>1 DEF StoreInv, TypeOK
  <1>3. ContentHeld' BY <1>1 DEF StoreInv, ContentHeld, Holds
  <1>4. StoreRest' BY <1>1, RestFrame
  <1> QED BY <1>2, <1>3, <1>4 DEF StoreInv, StoreRest, ReadIsStored

-----------------------------------------------------------------------------
\* One case for each operation.
LEMMA StoreKeeps == StoreInv /\ [Next]_vars => StoreInv'
  <1> SUFFICES ASSUME StoreInv, [Next]_vars PROVE StoreInv' OBVIOUS
  <1>1. CASE \E f \in File : Land(f) BY <1>1, LandKeeps
  <1>2. CASE \E s \in Source : Approve(s) BY <1>2, ApproveKeeps
  <1>3. CASE \E f \in File : IngestFile(f) BY <1>3, IngestFileKeeps
  <1>4. CASE \E f \in File : IngestItems(f) BY <1>4, IngestItemsKeeps
  <1>5. CASE \E s \in Source, names \in SUBSET File : FoldJournals(s, names) BY <1>5, FoldJournalsKeeps
  <1>6. CASE BeginBank BY <1>6, BeginBankKeeps
  <1>7. CASE \E s \in Source : Unbank(s) BY <1>7, UnbankKeeps
  <1>8. CASE DeleteHostYears BY <1>8, DeleteHostYearsKeeps
  <1>9. CASE DeleteYears BY <1>9, DeleteYearsKeeps
  <1>10. CASE DeleteEvidence BY <1>10, DeleteEvidenceKeeps
  <1>11. CASE DeleteReceipts BY <1>11, DeleteReceiptsKeeps
  <1>12. CASE Kill BY <1>12, KillKeeps
  <1>13. CASE UNCHANGED vars BY <1>13, StandStillKeeps
  <1> QED BY <1>1, <1>2, <1>3, <1>4, <1>5, <1>6, <1>7, <1>8, <1>9, <1>10, <1>11, <1>12, <1>13
       DEF Next, Ingest, TakeBack

(***************************************************************************)
(* Between any two statements of any bank or unbank every annual record    *)
(* cites a held row that may date it, a class holds one row per subject    *)
(* and year but for an error's successor, and a batch of journals writes   *)
(* what they would one by one (checks.py:106-134, hostnames.py:528-529).   *)
(***************************************************************************)
THEOREM StoreRowsAreSound == Spec => []RowsAreSound
  <1>1. StoreInv => RowsAreSound BY BatchIsOneByOne DEF StoreInv, RowsAreSound
  <1> QED BY StoreStarts, StoreKeeps, <1>1, PTL DEF Spec

(***************************************************************************)
(* Until a red gate takes a source back, what every receipt counts as read *)
(* is in the store, every host lane's row has its host-year, and every     *)
(* dated pair cites its best row (bulk.py:8-12, hostnames.py:603-605).     *)
(***************************************************************************)
THEOREM StoreKeepsWhatItRead == Spec => []ReadIsStored
  <1>1. StoreInv => ReadIsStored BY DEF StoreInv
  <1> QED BY StoreStarts, StoreKeeps, <1>1, PTL DEF Spec
=============================================================================
