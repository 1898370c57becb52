--------------------------- MODULE Message_proofs ---------------------------
(***************************************************************************)
(* Theorems about Message, for every number of handles and of messages:    *)
(* no sequence of build(), new_builder(), moves, copies and destructions   *)
(* leaks or twice frees an arena; an owner's message lives, with all that  *)
(* is in its groups and its map; and the map finds each field and group of *)
(* the message by its tag, however deep the groups lie in one another.     *)
(***************************************************************************)
EXTENDS Message, SequenceTheorems, FiniteSetTheorems, TLAPS

(* Induction over the natural numbers, of a set.                           *)
Below == {pair \in Nat \X Nat : pair[1] < pair[2]}

LEMMA EveryNat ==
  ASSUME NEW T, 0 \in T, \A n \in Nat : n \in T => n + 1 \in T PROVE Nat \subseteq T
<1> DEFINE Out == {n \in Nat : n \notin T}
<1>1. IsWellFoundedOn(Below, Nat)
  BY NatLessThanWellFounded DEF OpToRel, Below
<1>2. ASSUME Out # {} PROVE FALSE
  <2>1. PICK x \in Out : \A y \in Out : <<y, x>> \notin Below
    <3> HIDE DEF Out
    <3>1. Out \subseteq Nat
      BY DEF Out
    <3> QED
      BY <1>1, <1>2, <3>1, WFMin
  <2>2. x \in Nat /\ x # 0 /\ x - 1 \in Nat
    OBVIOUS
  <2>3. <<x - 1, x>> \in Below
    BY <2>2 DEF Below
  <2>4. x - 1 \in T
    BY <2>1, <2>2, <2>3
  <2>5. x - 1 + 1 = x
    BY <2>2
  <2> QED
    BY <2>2, <2>4, <2>5
<1> QED
  BY <1>2

(* A function defined step by step up to n.                                *)
Stepwise(n, A, base, step) ==
  {f \in [0..n -> A] : f[0] = base /\ \A i \in 1..n : f[i] = step[<<f[i-1], i>>]}

LEMMA StepsExist ==
  ASSUME NEW n \in Nat, NEW A, NEW base \in A, NEW step \in [A \X (1..n) -> A]
  PROVE  Stepwise(n, A, base, step) # {}
<1> DEFINE T == {k \in Nat : k <= n =>
                   \E f \in [0..k -> A] : f[0] = base /\ \A i \in 1..k : f[i] = step[<<f[i-1], i>>]}
<1>1. 0 \in T
  <2> DEFINE f == [i \in 0..0 |-> base]
  <2>1. f \in [0..0 -> A] /\ f[0] = base /\ \A i \in 1..0 : f[i] = step[<<f[i-1], i>>]
    OBVIOUS
  <2> HIDE DEF f
  <2> QED
    BY <2>1
<1>2. ASSUME NEW k \in Nat, k \in T PROVE k + 1 \in T
  <2> SUFFICES ASSUME k + 1 <= n
               PROVE  \E g \in [0..k+1 -> A] :
                        g[0] = base /\ \A i \in 1..k+1 : g[i] = step[<<g[i-1], i>>]
    OBVIOUS
  <2>1. PICK f \in [0..k -> A] : f[0] = base /\ \A i \in 1..k : f[i] = step[<<f[i-1], i>>]
    BY <1>2
  <2> DEFINE g == [i \in 0..k+1 |-> IF i <= k THEN f[i] ELSE step[<<f[k], k+1>>]]
  <2>2. g \in [0..k+1 -> A] /\ g[0] = base
    BY <2>1
  <2>3. ASSUME NEW i \in 1..k+1 PROVE g[i] = step[<<g[i-1], i>>]
    <3>1. CASE i <= k
      BY <2>1, <3>1
    <3>2. CASE i = k + 1
      <4>1. g[k] = f[k] /\ g[k+1] = step[<<f[k], k+1>>] /\ i - 1 = k
        BY <3>2
      <4> HIDE DEF g
      <4> QED
        BY <3>2, <4>1
    <3> QED
      BY <3>1, <3>2
  <2> HIDE DEF g
  <2> QED
    BY <2>2, <2>3
<1>3. n \in T
  <2> HIDE DEF T
  <2> QED
    BY <1>1, <1>2, EveryNat
<1> QED
  BY <1>3 DEF Stepwise

-----------------------------------------------------------------------------
(* The fields of a message with items in ws, and the maps of one. *)
Field(ws) == [tag : Tags, items : Seq(ws)]
Fields(ws) == Seq(Field(ws))
Groups(ws) == Seq(ws) \cup {None}
Maps(ws) == [field : [Tags -> 0..MaxFields], group : [Tags -> Groups(ws)]]

LEMMA FieldTyped ==
  ASSUME NEW ws, NEW f \in Field(ws) PROVE f.tag \in Tags /\ f.items \in Seq(ws)
  BY DEF Field

LEMMA FieldsTyped ==
  ASSUME NEW ws, NEW fs \in Fields(ws)
  PROVE  /\ Len(fs) \in Nat /\ DOMAIN fs = 1..Len(fs)
         /\ \A i \in 1..Len(fs) : fs[i] \in Field(ws)
         /\ \A i \in 1..Len(fs) : fs[i].tag \in Tags /\ fs[i].items \in Seq(ws)
<1>1. Len(fs) \in Nat /\ DOMAIN fs = 1..Len(fs)
  BY LenProperties DEF Fields
<1>2. ASSUME NEW i \in 1..Len(fs) PROVE fs[i] \in Field(ws)
  BY ElementOfSeq DEF Fields
<1> QED
  BY <1>1, <1>2, FieldTyped

(* A sequence of wire messages is a group, and no pointer is not one.      *)
LEMMA GroupsTyped == \A ws : Seq(ws) \subseteq Groups(ws) /\ <<>> \in Seq(ws)
  BY DEF Groups

(* The concatenation, hidden from the provers. *)
Joined(s, u) == s \o u

(* One more field mapped. *)
LEMMA MapNextTyped ==
  ASSUME NEW ws, NEW m \in Maps(ws), NEW f \in Field(ws), NEW i \in 1..MaxFields
  PROVE  /\ MapNext(m, f, i) \in Maps(ws)
         /\ f.tag \in GroupTags =>
              /\ MapNext(m, f, i).field = m.field
              /\ MapNext(m, f, i).group[f.tag] =
                   Joined(IF m.group[f.tag] = None THEN <<>> ELSE m.group[f.tag], f.items)
              /\ \A t \in Tags \ {f.tag} : MapNext(m, f, i).group[t] = m.group[t]
         /\ f.tag \notin GroupTags =>
              /\ MapNext(m, f, i).group = m.group
              /\ MapNext(m, f, i).field[f.tag] = i
              /\ \A t \in Tags \ {f.tag} : MapNext(m, f, i).field[t] = m.field[t]
<1> DEFINE t == f.tag
<1>0. t \in Tags /\ f.items \in Seq(ws)
  BY FieldTyped
<1>3. /\ m.field \in [Tags -> 0..MaxFields] /\ m.group \in [Tags -> Groups(ws)]
      /\ \A x, y : [field |-> x, group |-> y].field = x /\ [field |-> x, group |-> y].group = y
      /\ m = [field |-> m.field, group |-> m.group]
      /\ \A x \in [Tags -> 0..MaxFields], y \in [Tags -> Groups(ws)] : [field |-> x, group |-> y] \in Maps(ws)
  BY DEF Maps
<1> DEFINE g == (IF m.group[t] = None THEN <<>> ELSE m.group[t]) \o f.items
<1>4. g \in Seq(ws)
  <2>1. m.group[t] \in Groups(ws)
    BY <1>0, <1>3
  <2>2. (IF m.group[t] = None THEN <<>> ELSE m.group[t]) \in Seq(ws)
    BY <2>1, GroupsTyped DEF Groups
  <2> QED
    BY <1>0, <2>2, ConcatProperties
<1>1. CASE t \in GroupTags
  <2>1. MapNext(m, f, i) = [m EXCEPT !.group[t] = g]
    BY <1>1 DEF MapNext, MapGroup
  <2> DEFINE y == [m.group EXCEPT ![t] = g]
  <2>2. y[t] = g /\ \A u \in Tags \ {t} : y[u] = m.group[u]
    BY <1>0, <1>3
  <2>3. y \in [Tags -> Groups(ws)]
    <3> HIDE DEF g
    <3> QED
      BY <1>3, <1>4, GroupsTyped
  <2>4. [m EXCEPT !.group[t] = g] = [field |-> m.field, group |-> y]
    <3> HIDE DEF g
    <3> QED
      BY <1>3 DEF Maps
  <2> HIDE DEF g, y
  <2>5. MapNext(m, f, i) = [field |-> m.field, group |-> y]
    BY <2>1, <2>4
  <2>6. MapNext(m, f, i) \in Maps(ws)
    BY <1>3, <2>3, <2>5
  <2>7. MapNext(m, f, i).field = m.field /\ MapNext(m, f, i).group = y
    BY <1>3, <2>5
  <2>8. g = Joined(IF m.group[t] = None THEN <<>> ELSE m.group[t], f.items)
    BY Zenon DEF g, Joined
  <2> QED
    BY <1>1, <2>2, <2>6, <2>7, <2>8
<1>2. CASE t \notin GroupTags
  <2>1. MapNext(m, f, i) = [m EXCEPT !.field[t] = i]
    BY <1>2 DEF MapNext, MapField
  <2> DEFINE x == [m.field EXCEPT ![t] = i]
  <2>2. x[t] = i /\ \A u \in Tags \ {t} : x[u] = m.field[u]
    BY <1>0, <1>3
  <2>3. x \in [Tags -> 0..MaxFields]
    <3>1. i \in 0..MaxFields
      BY MessageAssumption
    <3> QED
      BY <1>3, <3>1
  <2>4. [m EXCEPT !.field[t] = i] = [field |-> x, group |-> m.group]
    BY <1>3 DEF Maps
  <2> HIDE DEF x
  <2>5. MapNext(m, f, i) = [field |-> x, group |-> m.group]
    BY <2>1, <2>4
  <2>6. MapNext(m, f, i) \in Maps(ws)
    BY <1>3, <2>3, <2>5
  <2>7. MapNext(m, f, i).field = x /\ MapNext(m, f, i).group = m.group
    BY <1>3, <2>5
  <2> QED
    BY <1>2, <2>2, <2>6, <2>7
<1> QED
  BY <1>1, <1>2

(* remap_wire_message() maps one field after the other.                    *)
LEMMA MapOfSteps ==
  ASSUME NEW ws, NEW fs \in Fields(ws), Len(fs) <= MaxFields
  PROVE  \E up \in [0..Len(fs) -> Maps(ws)] :
           /\ up[0] = NoMap /\ MapOf(fs) = up[Len(fs)]
           /\ \A i \in 1..Len(fs) : up[i] = MapNext(up[i-1], fs[i], i)
<1> DEFINE n == Len(fs)
           step == [p \in Maps(ws) \X (1..n) |-> MapNext(p[1], fs[p[2]], p[2])]
<1>1. n \in Nat /\ n <= MaxFields /\ MaxFields \in Nat /\ \A i \in 1..n : fs[i] \in Field(ws)
  BY FieldsTyped, MessageAssumption
<1>2. NoMap \in Maps(ws)
  BY <1>1, GroupsTyped DEF NoMap, Maps, Groups
<1>3. \A m \in Maps(ws), i \in 1..n : step[<<m, i>>] = MapNext(m, fs[i], i)
  OBVIOUS
<1>4. step \in [Maps(ws) \X (1..n) -> Maps(ws)]
  <2>1. ASSUME NEW m \in Maps(ws), NEW i \in 1..n PROVE MapNext(m, fs[i], i) \in Maps(ws)
    <3>1. fs[i] \in Field(ws) /\ i \in 1..MaxFields
      BY <1>1
    <3> QED
      BY <3>1, MapNextTyped
  <2> QED
    BY <2>1
<1> HIDE DEF n, step
<1>5. PICK up \in [0..n -> Maps(ws)] : up[0] = NoMap /\ \A i \in 1..n : up[i] = step[<<up[i-1], i>>]
  <2>1. Stepwise(n, Maps(ws), NoMap, step) # {}
    BY <1>1, <1>2, <1>4, StepsExist
  <2> QED
    BY <2>1 DEF Stepwise
<1>6. \A i \in 1..n : up[i] = MapNext(up[i-1], fs[i], i)
  <2>1. ASSUME NEW i \in 1..n PROVE up[i] = MapNext(up[i-1], fs[i], i)
    <3>1. i - 1 \in 0..n
      BY <1>1
    <3>2. up[i-1] \in Maps(ws)
      BY <1>5, <3>1
    <3> QED
      BY <1>3, <1>5, <3>2
  <2> QED
    BY <2>1
<1> DEFINE IsUp(f) == f = [i \in 0..n |-> IF i = 0 THEN NoMap ELSE MapNext(f[i-1], fs[i], i)]
<1>7. IsUp(up)
  <2>1. \A i \in 0..n : up[i] = IF i = 0 THEN NoMap ELSE MapNext(up[i-1], fs[i], i)
    BY <1>1, <1>5, <1>6
  <2>2. up = [i \in 0..n |-> up[i]]
    BY <1>5
  <2> QED
    BY <2>1, <2>2
<1>8. ASSUME NEW f, IsUp(f) PROVE f[n] = up[n]
  <2> DEFINE T == {k \in Nat : k <= n => f[k] = up[k]}
  <2>1. \A i \in 0..n : f[i] = IF i = 0 THEN NoMap ELSE MapNext(f[i-1], fs[i], i)
    BY <1>8
  <2>2. 0 \in T
    BY <1>1, <1>5, <2>1
  <2>3. ASSUME NEW k \in Nat, k \in T PROVE k + 1 \in T
    <3> SUFFICES ASSUME k + 1 <= n PROVE f[k+1] = up[k+1]
      OBVIOUS
    <3>1. k + 1 \in 1..n /\ k + 1 \in 0..n /\ k + 1 # 0 /\ k + 1 - 1 = k /\ f[k] = up[k]
      BY <1>1, <2>3
    <3>2. f[k+1] = MapNext(f[k], fs[k+1], k+1)
      BY <2>1, <3>1
    <3>3. up[k+1] = MapNext(up[k], fs[k+1], k+1)
      BY <1>6, <3>1
    <3> QED
      BY <3>1, <3>2, <3>3
  <2>4. n \in T
    <3> HIDE DEF T
    <3> QED
      BY <1>1, <2>2, <2>3, EveryNat
  <2> QED
    BY <1>1, <2>4
<1>9. MapOf(fs) = up[n]
  <2> DEFINE f == CHOOSE f : IsUp(f)
  <2>1. IsUp(f)
    BY <1>7
  <2>2. MapOf(fs) = f[n]
    BY DEF MapOf, n
  <2> HIDE DEF f
  <2> QED
    BY <1>8, <2>1, <2>2
<1> QED
  BY <1>5, <1>6, <1>9 DEF n

(* FlattenSeq() puts one sequence after the other.                         *)
LEMMA FlattenSteps ==
  ASSUME NEW S, NEW seqs \in Seq(Seq(S))
  PROVE  \E fl \in [0..Len(seqs) -> Seq(S)] :
           /\ fl[0] = <<>> /\ FlattenSeq(seqs) = fl[Len(seqs)]
           /\ \A i \in 1..Len(seqs) : fl[i] = Joined(fl[i-1], seqs[i])
<1> DEFINE n == Len(seqs)
           step == [p \in Seq(S) \X (1..n) |-> Joined(p[1], seqs[p[2]])]
<1>1. n \in Nat /\ \A i \in 1..n : seqs[i] \in Seq(S)
  BY LenProperties, ElementOfSeq
<1>2. <<>> \in Seq(S) /\ \A s \in Seq(S) : Joined(<<>>, s) = s
  BY EmptySeq, ConcatEmptySeq DEF Joined
<1>3. \A s \in Seq(S), i \in 1..n : step[<<s, i>>] = Joined(s, seqs[i])
  OBVIOUS
<1>4. step \in [Seq(S) \X (1..n) -> Seq(S)]
  <2>1. \A s \in Seq(S), i \in 1..n : Joined(s, seqs[i]) \in Seq(S)
    BY <1>1, ConcatProperties DEF Joined
  <2> QED
    BY <2>1
<1>0. n = 0 => seqs = <<>>
  BY EmptySeq
<1> HIDE DEF n, step
<1>5. PICK fl \in [0..n -> Seq(S)] : fl[0] = <<>> /\ \A i \in 1..n : fl[i] = step[<<fl[i-1], i>>]
  <2>1. Stepwise(n, Seq(S), <<>>, step) # {}
    BY <1>1, <1>2, <1>4, StepsExist
  <2> QED
    BY <2>1 DEF Stepwise
<1>6. \A i \in 1..n : fl[i] = Joined(fl[i-1], seqs[i])
  <2>1. ASSUME NEW i \in 1..n PROVE fl[i] = Joined(fl[i-1], seqs[i])
    <3>1. i - 1 \in 0..n
      BY <1>1
    <3>2. fl[i-1] \in Seq(S)
      BY <1>5, <3>1
    <3> QED
      BY <1>3, <1>5, <3>2
  <2> QED
    BY <2>1
<1>7. CASE n = 0
  <2>1. FlattenSeq(seqs) = fl[n]
    BY <1>0, <1>5, <1>7 DEF FlattenSeq, Joined, n
  <2> QED
    BY <1>5, <1>6, <2>1 DEF n
<1>8. CASE n # 0
  <2> DEFINE IsFlat(f) == f = [i \in 1..n |-> IF i = 1 THEN seqs[i] ELSE Joined(f[i-1], seqs[i])]
             g == [i \in 1..n |-> fl[i]]
  <2>1. IsFlat(g)
    <3>1. ASSUME NEW i \in 1..n PROVE g[i] = IF i = 1 THEN seqs[i] ELSE Joined(g[i-1], seqs[i])
      <4>1. CASE i = 1
        BY <1>1, <1>2, <1>5, <1>6, <4>1
      <4>2. CASE i # 1
        <5>1. i - 1 \in 1..n
          BY <1>1, <4>2
        <5>2. g[i] = fl[i] /\ g[i-1] = fl[i-1]
          BY <5>1
        <5> HIDE DEF g
        <5> QED
          BY <1>1, <1>6, <4>2, <5>2
      <4> QED
        BY <4>1, <4>2
    <3> QED
      BY <3>1
  <2>2. ASSUME NEW f, IsFlat(f) PROVE f[n] = fl[n]
    <3> DEFINE T == {k \in Nat : k \in 1..n => f[k] = fl[k]}
    <3>1. \A i \in 1..n : f[i] = IF i = 1 THEN seqs[i] ELSE Joined(f[i-1], seqs[i])
      BY <2>2
    <3>2. 0 \in T
      OBVIOUS
    <3>3. ASSUME NEW k \in Nat, k \in T PROVE k + 1 \in T
      <4> SUFFICES ASSUME k + 1 \in 1..n PROVE f[k+1] = fl[k+1]
        OBVIOUS
      <4>0. fl[k+1] = Joined(fl[k], seqs[k+1])
        <5>1. \A i \in 1..n : i - 1 = k => fl[i] = Joined(fl[k], seqs[i])
          BY <1>6
        <5>2. k + 1 - 1 = k
          OBVIOUS
        <5> QED
          BY <5>1, <5>2
      <4>1. CASE k = 0
        <5>1. f[1] = seqs[1] /\ seqs[1] \in Seq(S) /\ fl[0] = <<>> /\ k + 1 = 1
          BY <1>1, <1>5, <3>1, <4>1
        <5> QED
          BY <1>2, <4>0, <4>1, <5>1
      <4>2. CASE k # 0
        <5>1. k \in 1..n /\ k + 1 # 1 /\ k + 1 - 1 = k
          BY <1>1, <4>2
        <5>2. f[k] = fl[k]
          BY <3>3, <5>1
        <5>4. \A i \in 1..n : i # 1 /\ i - 1 = k => f[i] = Joined(f[k], seqs[i])
          BY <3>1
        <5>3. f[k+1] = Joined(f[k], seqs[k+1])
          BY <5>1, <5>4
        <5> QED
          BY <4>0, <5>2, <5>3
      <4> QED
        BY <4>1, <4>2
    <3>4. n \in T
      <4> HIDE DEF T
      <4> QED
        BY <1>1, <3>2, <3>3, EveryNat
    <3> QED
      BY <1>1, <1>8, <3>4
  <2>3. FlattenSeq(seqs) = fl[n]
    <3> DEFINE f == CHOOSE f : IsFlat(f)
    <3>1. IsFlat(f)
      BY <2>1
    <3>2. FlattenSeq(seqs) = f[n]
      BY <1>8 DEF FlattenSeq, Joined, n
    <3> HIDE DEF f
    <3> QED
      BY <2>2, <3>1, <3>2
  <2> QED
    BY <1>5, <1>6, <2>3 DEF n
<1> QED
  BY <1>7, <1>8

(* The fields of one tag are found in the map, the last of a scalar's and  *)
(* the items of all of a group's.                                          *)
LEMMA FieldFound ==
  ASSUME NEW ws, NEW fs \in Fields(ws), Len(fs) <= MaxFields, NEW t \in Tags \ GroupTags
  PROVE  MapOf(fs).field[t] = LastOf(fs, t)
<1> DEFINE n == Len(fs)
           Latest(k, i) == /\ i \in 1..k /\ fs[i].tag = t
                           /\ \A j \in 1..k : fs[j].tag = t => j <= i
           Null(k) == \A j \in 1..k : fs[j].tag # t
<1>1. n \in Nat /\ n <= MaxFields /\ MaxFields \in Nat /\ DOMAIN fs = 1..n
  BY FieldsTyped, MessageAssumption
<1>2. PICK up \in [0..n -> Maps(ws)] :
        /\ up[0] = NoMap /\ MapOf(fs) = up[n]
        /\ \A i \in 1..n : up[i] = MapNext(up[i-1], fs[i], i)
  BY MapOfSteps
<1> DEFINE T == {k \in Nat : k <= n =>
                   LET i == up[k].field[t] IN IF i = 0 THEN Null(k) ELSE Latest(k, i)}
<1>3. 0 \in T
  BY <1>2 DEF NoMap
<1>4. ASSUME NEW k \in Nat, k \in T PROVE k + 1 \in T
  <2> SUFFICES ASSUME k + 1 <= n
               PROVE  LET i == up[k+1].field[t] IN IF i = 0 THEN Null(k+1) ELSE Latest(k+1, i)
    OBVIOUS
  <2>1. k + 1 \in 1..n /\ k + 1 \in 1..MaxFields /\ k + 1 - 1 = k /\ k \in 0..n
    BY <1>1
  <2>2. up[k] \in Maps(ws) /\ fs[k+1] \in Field(ws) /\ up[k+1] = MapNext(up[k], fs[k+1], k+1)
    BY <1>1, <1>2, <2>1, FieldsTyped
  <2>3. IF up[k].field[t] = 0 THEN Null(k) ELSE Latest(k, up[k].field[t])
    BY <1>4, <2>1
  <2>6. LET f == fs[k+1] IN
        /\ f.tag \in GroupTags => up[k+1].field = up[k].field
        /\ f.tag \notin GroupTags => /\ up[k+1].field[f.tag] = k + 1
                                    /\ \A u \in Tags \ {f.tag} : up[k+1].field[u] = up[k].field[u]
    BY <2>1, <2>2, MapNextTyped
  <2>4. CASE fs[k+1].tag = t
    <3>1. up[k+1].field[t] = k + 1
      BY <2>4, <2>6
    <3> QED
      BY <2>4, <3>1
  <2>5. CASE fs[k+1].tag # t
    <3>1. up[k+1].field[t] = up[k].field[t]
      BY <2>5, <2>6
    <3> QED
      BY <2>3, <2>5, <3>1
  <2> QED
    BY <2>4, <2>5
<1>5. n \in T
  <2> HIDE DEF T
  <2> QED
    BY <1>1, <1>3, <1>4, EveryNat
<1> DEFINE i == up[n].field[t]
<1>6. IF i = 0 THEN Null(n) ELSE Latest(n, i)
  BY <1>1, <1>5
<1>7. CASE i = 0
  BY <1>1, <1>2, <1>6, <1>7 DEF LastOf
<1>8. CASE i # 0
  <2>1. Latest(n, i)
    BY <1>6, <1>8
  <2>2. \A j \in 1..n : Latest(n, j) => j = i
    BY <1>1, <2>1
  <2> DEFINE c == CHOOSE j \in 1..n : Latest(n, j)
  <2>3. c = i
    BY <2>1, <2>2
  <2>4. LastOf(fs, t) = CHOOSE j \in 1..n :
                          fs[j].tag = t /\ \A l \in 1..n : fs[l].tag = t => l <= j
    BY <1>1, <2>1 DEF LastOf
  <2>5. LastOf(fs, t) \in 1..n /\ Latest(n, LastOf(fs, t))
    <3> HIDE DEF i
    <3> QED
      BY <2>1, <2>4
  <2>6. LastOf(fs, t) = i
    BY <2>2, <2>5
  <2> QED
    BY <1>2, <2>6
<1> QED
  BY <1>7, <1>8

LEMMA GroupFound ==
  ASSUME NEW ws, NEW fs \in Fields(ws), Len(fs) <= MaxFields, None \notin Seq(ws), NEW t \in GroupTags
  PROVE  MapOf(fs).group[t] = IF \E i \in DOMAIN fs : fs[i].tag = t
                              THEN FlattenSeq([i \in DOMAIN fs |-> ItemsUnder(fs[i], t)])
                              ELSE None
<1> DEFINE n == Len(fs)
           seqs == [i \in 1..n |-> ItemsUnder(fs[i], t)]
           Some(k) == \E j \in 1..k : fs[j].tag = t
<1>1. n \in Nat /\ n <= MaxFields /\ MaxFields \in Nat /\ DOMAIN fs = 1..n /\ t \in Tags
  BY FieldsTyped, MessageAssumption
<1>2. seqs \in Seq(Seq(ws)) /\ Len(seqs) = n
  <2>1. \A i \in 1..n : ItemsUnder(fs[i], t) \in Seq(ws)
    BY FieldsTyped, GroupsTyped DEF ItemsUnder
  <2>2. seqs \in [1..n -> Seq(ws)]
    BY <2>1
  <2> HIDE DEF seqs, n
  <2> QED
    BY <1>1, <2>2
<1>3. PICK up \in [0..n -> Maps(ws)] :
        /\ up[0] = NoMap /\ MapOf(fs) = up[n]
        /\ \A i \in 1..n : up[i] = MapNext(up[i-1], fs[i], i)
  BY MapOfSteps
<1>4. PICK fl \in [0..n -> Seq(ws)] :
        /\ fl[0] = <<>> /\ FlattenSeq(seqs) = fl[n]
        /\ \A i \in 1..n : fl[i] = Joined(fl[i-1], seqs[i])
  <2> HIDE DEF seqs, n
  <2> QED
    BY <1>2, FlattenSteps
<1>5. \A i \in 1..n : seqs[i] = ItemsUnder(fs[i], t)
  OBVIOUS
<1> HIDE DEF seqs
<1> DEFINE T == {k \in Nat : k <= n =>
                   /\ up[k].group[t] = IF Some(k) THEN fl[k] ELSE None
                   /\ ~Some(k) => fl[k] = <<>>}
<1>6. 0 \in T
  BY <1>1, <1>3, <1>4 DEF NoMap
<1>7. ASSUME NEW k \in Nat, k \in T PROVE k + 1 \in T
  <2> SUFFICES ASSUME k + 1 <= n
               PROVE  /\ up[k+1].group[t] = IF Some(k+1) THEN fl[k+1] ELSE None
                      /\ ~Some(k+1) => fl[k+1] = <<>>
    OBVIOUS
  <2>1. k + 1 \in 1..n /\ k + 1 \in 1..MaxFields /\ k + 1 - 1 = k /\ k \in 0..n
    BY <1>1
  <2>2. up[k] \in Maps(ws) /\ fs[k+1] \in Field(ws) /\ up[k+1] = MapNext(up[k], fs[k+1], k+1)
    <3>1. fs[k+1] \in Field(ws)
      BY <2>1, FieldsTyped
    <3> QED
      BY <1>1, <1>3, <2>1, <3>1
  <2>3. /\ up[k].group[t] = IF Some(k) THEN fl[k] ELSE None
        /\ ~Some(k) => fl[k] = <<>>
    BY <1>7, <2>1
  <2>4. /\ fl[k] \in Seq(ws) /\ fl[k+1] = Joined(fl[k], ItemsUnder(fs[k+1], t))
        /\ fl[k] # None
    BY <1>1, <1>4, <1>5, <2>1
  <2>5. CASE fs[k+1].tag = t
    <3>1. Some(k+1)
      BY <2>1, <2>5
    <3>2. up[k+1].group[t] =
            Joined(IF up[k].group[t] = None THEN <<>> ELSE up[k].group[t], fs[k+1].items)
      BY <2>1, <2>2, <2>5, MapNextTyped
    <3>3. (IF up[k].group[t] = None THEN <<>> ELSE up[k].group[t]) = fl[k]
      BY <2>3, <2>4
    <3>4. fl[k+1] = Joined(fl[k], fs[k+1].items)
      BY <2>4, <2>5 DEF ItemsUnder
    <3> QED
      BY <3>1, <3>2, <3>3, <3>4
  <2>6. CASE fs[k+1].tag # t
    <3>0. LET f == fs[k+1] IN
          /\ f.tag \notin GroupTags => up[k+1].group = up[k].group
          /\ f.tag \in GroupTags => \A u \in Tags \ {f.tag} : up[k+1].group[u] = up[k].group[u]
      BY <2>1, <2>2, MapNextTyped
    <3>1. up[k+1].group[t] = up[k].group[t]
      BY <1>1, <2>6, <3>0
    <3>2. Some(k+1) <=> Some(k)
      BY <2>1, <2>6
    <3>3. fl[k+1] = fl[k]
      BY <2>4, <2>6, ConcatEmptySeq DEF ItemsUnder, Joined
    <3> HIDE DEF Some
    <3> QED
      BY <2>3, <3>1, <3>2, <3>3
  <2> QED
    BY <2>5, <2>6
<1>8. n \in T
  <2> HIDE DEF T
  <2> QED
    BY <1>1, <1>6, <1>7, EveryNat
<1>9. up[n].group[t] = IF Some(n) THEN fl[n] ELSE None
  BY <1>1, <1>8
<1> HIDE DEF n
<1> QED
  BY <1>1, <1>3, <1>4, <1>9 DEF seqs

(* remap_wire_message() finds what is there.                               *)
LEMMA MapFinds ==
  ASSUME NEW ws, NEW fs \in Fields(ws), Len(fs) <= MaxFields, None \notin Seq(ws)
  PROVE  MapOf(fs) \in Maps(ws) /\ Finds(MapOf(fs), fs)
<1>1. MapOf(fs) \in Maps(ws)
  BY MapOfSteps, FieldsTyped
<1>2. Finds(MapOf(fs), fs)
  BY FieldFound, GroupFound, Zenon DEF Finds, FindField, FindGroup
<1> QED
  BY <1>1, <1>2
-----------------------------------------------------------------------------

(* The part of the state the arenas depend on. *)
MemTypes ==
  /\ kind \in [Handles -> {"none", "builder", "message"}]
  /\ wire = [h \in Handles |-> wire[h]]
  /\ arena \in [Handles -> Wires \cup {None}]
  /\ home \in [Wires -> Wires \cup {None, Heap}]
  /\ made \in 0..MaxWires
  /\ copies \in SUBSET Wires

(* An arena or a message that is not allocated yet is used nowhere. *)
Fresh ==
  /\ \A w \in Wires : w > made => home[w] = None
  /\ \A w \in Wires : home[w] \in Wires => home[w] <= made
  /\ \A h \in Handles : arena[h] # None => arena[h] <= made
  /\ \A h \in Handles : arena[h] # None => wire[h] \in Wires /\ wire[h] <= made

OneOwner == \A g, h \in Handles : arena[g] # None /\ arena[g] = arena[h] => g = h

SomeOwner == \A w \in Wires : home[w] \in Wires => \E h \in Handles : arena[h] = home[w]

(* A message that clone() did not make lives in its owner's arena. *)
AtHome ==
  /\ \A h \in Handles : kind[h] = "none" => arena[h] = None
  /\ \A h \in Handles : arena[h] # None /\ wire[h] \notin copies => home[wire[h]] = arena[h]

MemInv == MemTypes /\ Fresh /\ OneOwner /\ SomeOwner /\ AtHome

LEMMA MemInvInit == Init => MemInv
  BY MessageAssumption
  DEF Init, MemInv, MemTypes, Fresh, OneOwner, SomeOwner, AtHome, Wires

(* The arena goes from one handle to another, which is new. *)
LEMMA MovePreserves ==
  ASSUME MemInv, NEW g \in Handles, NEW h \in Handles, NEW k \in {"builder", "message"}, NEW v,
         kind[g] # "none", Move(g, h, k, v), UNCHANGED memoryVars
  PROVE  MemInv'
<1> USE DEF MemInv, Wires
<1>1. g # h /\ kind[h] = "none" /\ arena[h] = None
  BY DEF Move, AtHome
<1>2. /\ kind' = [kind EXCEPT ![h] = k]
      /\ wire' = [wire EXCEPT ![h] = wire[g]]
      /\ arena' = [arena EXCEPT ![h] = arena[g], ![g] = None]
  BY DEF Move, ArenaLeft
<1>3. UNCHANGED <<home, made, copies>>
  BY DEF memoryVars
<1>4. MemTypes'
  BY <1>2, <1>3 DEF MemTypes
<1>5. Fresh'
  BY <1>1, <1>2, <1>3 DEF Fresh, MemTypes
<1>6. OneOwner'
  BY <1>1, <1>2, <1>3 DEF OneOwner, MemTypes
<1>7. SomeOwner'
  <2> SUFFICES ASSUME NEW w \in Wires, home[w] \in Wires
               PROVE  \E f \in Handles : arena'[f] = home[w]
    BY <1>3 DEF SomeOwner
  <2>1. PICK f \in Handles : arena[f] = home[w]
    BY DEF SomeOwner
  <2>2. CASE f = g
    BY <2>1, <2>2, <1>1, <1>2 DEF MemTypes
  <2>3. CASE f # g
    BY <2>1, <2>3, <1>1, <1>2, MessageAssumption DEF MemTypes
  <2> QED
    BY <2>2, <2>3
<1>8. AtHome'
  BY <1>1, <1>2, <1>3 DEF AtHome, MemTypes
<1> QED
  BY <1>4, <1>5, <1>6, <1>7, <1>8

(* A new handle without an arena disturbs nothing. *)
LEMMA BorrowPreserves ==
  ASSUME MemInv, NEW h \in Handles, NEW k \in {"builder", "message"}, NEW w, NEW v,
         Hold(h, k, w, None, v), UNCHANGED memoryVars
  PROVE  MemInv'
  BY DEF MemInv, MemTypes, Fresh, OneOwner, SomeOwner, AtHome, Hold, memoryVars

(* More memory where some arena already is, or on the heap. *)
LEMMA AllocatePreserves ==
  ASSUME MemInv, NEW n, NEW a \in Wires \cup {Heap},
         a \in Wires => \E h \in Handles : arena[h] = a,
         Allocate(n, a), UNCHANGED <<kind, wire, arena, copies>>
  PROVE  MemInv'
<1> USE DEF MemInv, Wires
<1>1. n \in Nat /\ made' = made + n /\ made' \in 0..MaxWires
  BY MessageAssumption DEF Allocate, MemTypes
<1>2. \A w \in Wires : home'[w] = IF w \in made + 1 .. made + n THEN a ELSE home[w]
  BY DEF Allocate
<1>3. MemTypes'
  BY <1>1 DEF MemTypes, Allocate
<1>4. a \in Wires => a <= made
  BY MessageAssumption DEF Fresh
<1>5. Fresh'
  BY <1>1, <1>2, <1>4, MessageAssumption DEF Fresh, MemTypes
<1>6. OneOwner'
  BY DEF OneOwner
<1>7. SomeOwner'
  BY <1>2 DEF SomeOwner
<1>8. AtHome'
  <2>1. \A w \in Wires : w <= made => home'[w] = home[w]
    BY <1>1, <1>2 DEF MemTypes
  <2> QED
    BY <2>1 DEF AtHome, Fresh, MemTypes
<1> QED
  BY <1>3, <1>5, <1>6, <1>7, <1>8

(* More memory with a new handle on it that has no arena. *)
LEMMA ItemPreserves ==
  ASSUME MemInv, NEW a \in Wires \cup {Heap}, NEW h \in Handles, NEW v,
         a \in Wires => \E g \in Handles : arena[g] = a,
         Allocate(1, a), Hold(h, "builder", made + 1, None, v), UNCHANGED copies
  PROVE  MemInv'
<1> USE DEF MemInv, Wires
<1>1. made' = made + 1 /\ made + 1 \in 1..MaxWires /\ made \in Nat
  BY MessageAssumption DEF Allocate, MemTypes
<1>2. \A w \in Wires : home'[w] = IF w \in made + 1 .. made + 1 THEN a ELSE home[w]
  BY DEF Allocate
<1>3. /\ kind[h] = "none" /\ arena[h] = None /\ arena' = arena
      /\ kind' = [kind EXCEPT ![h] = "builder"]
      /\ wire' = [wire EXCEPT ![h] = made + 1]
  BY DEF Hold, AtHome, MemTypes
<1>4. MemTypes'
  BY <1>1, <1>3 DEF MemTypes, Allocate
<1>5. Fresh'
  <2>1. a \in Wires => a <= made
    BY MessageAssumption DEF Fresh
  <2>2. MaxWires \in Nat /\ None \notin Wires /\ Heap \notin Wires /\ None # Heap
    BY MessageAssumption
  <2> QED
    BY <1>1, <1>2, <1>3, <2>1, <2>2 DEF Fresh, MemTypes
<1>6. OneOwner' /\ SomeOwner'
  BY <1>2, <1>3 DEF OneOwner, SomeOwner
<1>7. AtHome'
  <2>1. \A w \in Wires : w <= made => home'[w] = home[w]
    BY <1>1, <1>2 DEF MemTypes
  <2>2. \A g \in Handles : arena[g] # None => g # h /\ wire'[g] = wire[g]
    BY <1>3 DEF MemTypes
  <2> QED
    BY <1>3, <2>1, <2>2 DEF AtHome, Fresh, MemTypes
<1> QED
  BY <1>4, <1>5, <1>6, <1>7

-----------------------------------------------------------------------------
(* A new handle with a new arena, for the message w that was allocated     *)
(* first; w lives in that arena unless it is a copy.                       *)
LEMMA OwnPreserves ==
  ASSUME MemInv, NEW h \in Handles, NEW k \in {"builder", "message"}, NEW v,
         NEW n \in Nat \ {0}, NEW a \in Wires \cup {Heap}, Allocate(n, a),
         Hold(h, k, made + 1, made + 1, v),
         \/ a = made + 1 /\ n = 1 /\ copies' = copies
         \/ /\ a \in Wires => \E g \in Handles : arena[g] = a
            /\ copies' = copies \cup {made + 1}
  PROVE  MemInv'
<1> USE DEF MemInv, Wires
<1>1. made' = made + n /\ made' \in 0..MaxWires /\ made + 1 \in 1..MaxWires /\ made \in Nat
  BY MessageAssumption DEF Allocate, MemTypes
<1>2. \A w \in Wires : home'[w] = IF w \in made + 1 .. made + n THEN a ELSE home[w]
  BY DEF Allocate
<1>3. /\ kind[h] = "none" /\ arena[h] = None
      /\ kind' = [kind EXCEPT ![h] = k]
      /\ wire' = [wire EXCEPT ![h] = made + 1]
      /\ arena' = [arena EXCEPT ![h] = made + 1]
  BY DEF Hold, AtHome
<1>4. MemTypes'
  BY <1>1, <1>3 DEF MemTypes, Allocate
<1>5. a \in Wires => a <= made + 1
  BY <1>1, MessageAssumption DEF Fresh
<1>6. Fresh'
  <2>1. ASSUME NEW w \in Wires
        PROVE  /\ w > made' => home'[w] = None
               /\ home'[w] \in Wires => home'[w] <= made'
    <3>1. CASE w \in made + 1 .. made + n
      BY <3>1, <1>1, <1>2, <1>5
    <3>2. CASE w \notin made + 1 .. made + n
      BY <3>2, <1>1, <1>2 DEF Fresh, MemTypes
    <3> QED
      BY <3>1, <3>2
  <2>2. /\ \A g \in Handles : arena'[g] # None => arena'[g] <= made'
        /\ \A g \in Handles : arena'[g] # None => wire'[g] \in Wires /\ wire'[g] <= made'
    BY <1>1, <1>3, MessageAssumption DEF Fresh, MemTypes
  <2> QED
    BY <2>1, <2>2 DEF Fresh
<1>7. OneOwner'
  <2>1. \A g \in Handles : arena[g] # made + 1
    BY <1>1, MessageAssumption DEF Fresh, MemTypes
  <2> QED
    BY <1>3, <2>1 DEF OneOwner, MemTypes
<1>8. SomeOwner'
  <2> SUFFICES ASSUME NEW w \in Wires, home'[w] \in Wires
               PROVE  \E f \in Handles : arena'[f] = home'[w]
    BY DEF SomeOwner
  <2>1. CASE home'[w] = made + 1
    BY <2>1, <1>3 DEF MemTypes
  <2>2. CASE home'[w] # made + 1
    <3>1. \E g \in Handles : arena[g] = home'[w]
      BY <2>2, <1>2 DEF SomeOwner
    <3> QED
      BY <3>1, <1>3, MessageAssumption DEF MemTypes
  <2> QED
    BY <2>1, <2>2
<1>9. AtHome'
  <2>1. \A w \in Wires : w <= made => home'[w] = home[w]
    BY <1>1, <1>2 DEF MemTypes
  <2>2. made + 1 \notin copies' => home'[made + 1] = made + 1
    BY <1>1, <1>2
  <2>3. \A g \in Handles : kind'[g] = "none" => arena'[g] = None
    BY <1>3 DEF AtHome, MemTypes
  <2>5. ASSUME NEW g \in Handles, g # h, arena'[g] # None, wire'[g] \notin copies'
        PROVE  home'[wire'[g]] = arena'[g]
    <3>1. arena[g] # None /\ wire[g] \notin copies /\ wire'[g] = wire[g] /\ arena'[g] = arena[g]
      BY <2>5, <1>3 DEF MemTypes
    <3>2. wire[g] \in Wires /\ wire[g] <= made
      BY <3>1 DEF AtHome, MemTypes, Fresh
    <3> QED
      BY <3>1, <3>2, <2>1 DEF AtHome
  <2>6. arena'[h] = made + 1 /\ wire'[h] = made + 1
    BY <1>3 DEF MemTypes
  <2> QED
    BY <2>2, <2>3, <2>5, <2>6 DEF AtHome
<1> QED
  BY <1>4, <1>6, <1>7, <1>8, <1>9

(* An arena goes with its only owner, and no other handle owns a message   *)
(* in it.                                                                  *)
LEMMA DestroyPreserves == ASSUME MemInv, NEW h \in Handles, Destroy(h) PROVE MemInv'
<1> USE DEF MemInv, Wires
<1>1. /\ kind' = [kind EXCEPT ![h] = "none"]
      /\ wire' = [wire EXCEPT ![h] = None]
      /\ arena' = [arena EXCEPT ![h] = None]
      /\ \A w \in Wires : home'[w] = IF home[w] = arena[h] THEN None ELSE home[w]
      /\ UNCHANGED <<made, copies>>
  BY DEF Destroy
<1>2. MemTypes'
  BY <1>1 DEF MemTypes, Destroy
<1>3. Fresh'
  BY <1>1, MessageAssumption DEF Fresh, MemTypes
<1>4. OneOwner'
  BY <1>1 DEF OneOwner, MemTypes
<1>5. SomeOwner'
  BY <1>1, MessageAssumption DEF SomeOwner, MemTypes
<1>6. AtHome'
  <2>1. ASSUME NEW g \in Handles, arena'[g] # None, wire'[g] \notin copies'
        PROVE  home'[wire'[g]] = arena'[g]
    <3>1. g # h /\ arena'[g] = arena[g] /\ wire'[g] = wire[g]
      BY <2>1, <1>1 DEF MemTypes
    <3>2. arena[g] # arena[h]
      BY <2>1, <3>1 DEF OneOwner
    <3>3. wire[g] \in Wires /\ home[wire[g]] = arena[g]
      BY <2>1, <3>1, <1>1 DEF AtHome, Fresh, MemTypes
    <3> QED
      BY <3>1, <3>2, <3>3, <1>1
  <2> QED
    BY <1>1, <2>1 DEF AtHome, MemTypes
<1> QED
  BY <1>2, <1>3, <1>4, <1>5, <1>6

-----------------------------------------------------------------------------
LEMMA MemInvStep == MemInv /\ [Next]_vars => MemInv'
<1> SUFFICES ASSUME MemInv, [Next]_vars PROVE MemInv'
  OBVIOUS
<1>1. ASSUME NEW h \in Handles, Create(h) PROVE MemInv'
  <2>1. made + 1 \in Wires /\ 1 \in Nat \ {0}
    BY <1>1, MessageAssumption DEF Create, Allocate, MemInv, MemTypes, Wires
  <2> QED
    BY <1>1, <2>1, OwnPreserves DEF Create
<1>2. ASSUME NEW h \in Handles, Destroy(h) PROVE MemInv'
  BY <1>2, DestroyPreserves
<1>3. ASSUME NEW h \in Handles, NEW t \in Tags, AddField(h, t) PROVE MemInv'
  BY <1>3 DEF AddField, handleVars, MemInv, MemTypes, Fresh, OneOwner, SomeOwner, AtHome
<1>4. ASSUME NEW h \in Handles, NEW t \in Tags, NEW n \in 0..MaxFields, AddGroup(h, t, n)
      PROVE  MemInv'
  <2>1. wire[h] \in Wires /\ home[wire[h]] \in Wires \cup {Heap}
    BY <1>4 DEF AddGroup, Usable, Live, MemInv, MemTypes
  <2>2. home[wire[h]] \in Wires => \E g \in Handles : arena[g] = home[wire[h]]
    BY <2>1 DEF MemInv, SomeOwner
  <2> QED
    BY <1>4, <2>1, <2>2, AllocatePreserves DEF AddGroup, handleVars
<1>5. ASSUME NEW h \in Handles, NEW w \in Wires, NEW i \in 1..MaxFields, AddGroupItem(w, i, h)
      PROVE  MemInv'
  <2>1. /\ home[w] \in Wires \cup {Heap}
        /\ home[w] \in Wires => \E g \in Handles : arena[g] = home[w]
    BY <1>5 DEF AddGroupItem, Live, MemInv, MemTypes, SomeOwner
  <2> QED
    BY <1>5, <2>1, ItemPreserves DEF AddGroupItem
<1>6. ASSUME NEW g \in Handles, NEW h \in Handles, MoveBuilder(g, h) PROVE MemInv'
  <2>1. kind[g] # "none"
    BY <1>6 DEF MoveBuilder
  <2> QED
    BY <1>6, <2>1, MovePreserves DEF MoveBuilder
<1>7. ASSUME NEW g \in Handles, NEW h \in Handles, Build(g, h) PROVE MemInv'
  <2>1. kind[g] # "none"
    BY <1>7 DEF Build, Usable
  <2> QED
    BY <1>7, <2>1, MovePreserves DEF Build
<1>8. ASSUME NEW g \in Handles, NEW h \in Handles, NewBuilder(g, h) PROVE MemInv'
  <2>1. kind[g] # "none"
    BY <1>8 DEF NewBuilder
  <2> QED
    BY <1>8, <2>1, MovePreserves DEF NewBuilder
<1>9. ASSUME NEW g \in Handles, NEW h \in Handles, NEW n \in 1..MaxWires, Clone(g, h, n)
      PROVE  MemInv'
  <2>1. PICK v : /\ Allocate(n, CopyHome(g))
                 /\ copies' = copies \cup {made + 1}
                 /\ Hold(h, "message", made + 1, made + 1, v)
    BY <1>9 DEF Clone
  <2>2. /\ CopyHome(g) \in Wires \cup {Heap}
        /\ CopyHome(g) \in Wires => \E f \in Handles : arena[f] = CopyHome(g)
    BY MessageAssumption DEF CopyHome, MemInv, MemTypes
  <2>3. n \in Nat \ {0}
    BY MessageAssumption
  <2> QED
    BY <2>1, <2>2, <2>3, OwnPreserves
<1>10. ASSUME NEW g \in Handles, NEW h \in Handles, NEW t \in GroupTags, NEW i \in Wires,
              TakeItem(g, t, i, h)
       PROVE  MemInv'
  BY <1>10, BorrowPreserves DEF TakeItem
<1>11. CASE UNCHANGED vars
  BY <1>11 DEF vars, handleVars, memoryVars, MemInv, MemTypes, Fresh, OneOwner, SomeOwner, AtHome
<1> QED
  BY <1>1, <1>2, <1>3, <1>4, <1>5, <1>6, <1>7, <1>8, <1>9, <1>10, <1>11 DEF Next, Over

(* Every arena in use has exactly one handle that will free it, whatever   *)
(* was built, moved, taken apart, cloned and destroyed before.             *)
THEOREM ArenasOwned == Spec => []ArenaOwned
<1>1. MemInv => ArenaOwned
  <2> SUFFICES ASSUME MemInv, NEW w \in Wires, home[w] \in Wires
               PROVE  \E h \in Handles : /\ arena[h] = home[w]
                                         /\ \A g \in Handles : arena[g] = home[w] => g = h
    BY DEF ArenaOwned
  <2>1. PICK h \in Handles : arena[h] = home[w]
    BY DEF MemInv, SomeOwner
  <2>2. \A g \in Handles : arena[g] = home[w] => g = h
    BY <2>1, MessageAssumption DEF MemInv, OneOwner
  <2> QED
    BY <2>1, <2>2
<1> QED
  BY <1>1, MemInvInit, MemInvStep, PTL DEF Spec

-----------------------------------------------------------------------------
(* What the memory holds: fields whose items are wire messages, as many as *)
(* there is room for.                                                      *)
Contents ==
  /\ fields \in [Wires -> Fields(Wires)]
  /\ \A w \in Wires : Len(fields[w]) <= MaxFields

(* A message and the items of its groups live in the same place.           *)
Together ==
  /\ \A w \in Wires : home[w] = None => fields[w] = <<>>
  /\ \A w \in Wires : \A v \in ItemsIn(fields[w]) : home[v] = home[w]

(* A map covers the messages in its own groups, and those of a message     *)
(* that clone() did not make live in its owner's arena.                    *)
Mapped(v) == \E ws \in SUBSET Wires : v \in [ws -> Maps(ws)]
Views ==
  /\ wire \in [Handles -> Wires \cup {None}]
  /\ view = [h \in Handles |-> view[h]]
  /\ \A h \in Handles : Mapped(view[h])
  /\ \A h \in Handles : kind[h] = "message" => wire[h] \in DOMAIN view[h]
  /\ \A h \in Handles : arena[h] # None /\ wire[h] \notin copies =>
       \A v \in DOMAIN view[h] : home[v] = arena[h]

ContentInv == Contents /\ Together /\ Views

(* The items of the fields of a message are where the fields say.          *)
LEMMA ItemsTyped ==
  ASSUME NEW ws, NEW fs \in Fields(ws) PROVE ItemsIn(fs) \subseteq ws
<1> SUFFICES ASSUME NEW i \in DOMAIN fs PROVE ToSet(fs[i].items) \subseteq ws
  BY DEF ItemsIn
<1>1. fs[i].items \in Seq(ws)
  BY FieldsTyped
<1> QED
  BY <1>1, LenProperties, ElementOfSeq DEF ToSet

LEMMA TypedByItems ==
  ASSUME NEW ws, NEW us, NEW fs \in Fields(us), ItemsIn(fs) \subseteq ws
  PROVE  fs \in Fields(ws)
<1>1. ASSUME NEW i \in 1..Len(fs) PROVE fs[i] \in Field(ws)
  <2>1. fs[i] \in Field(us) /\ i \in DOMAIN fs
    BY FieldsTyped
  <2> DEFINE its == fs[i].items
  <2>2. its \in Seq(us) /\ ToSet(its) \subseteq ws
    BY <2>1, FieldTyped DEF ItemsIn
  <2>3. Len(its) \in Nat /\ DOMAIN its = 1..Len(its) /\ its \in [1..Len(its) -> us]
    BY <2>2, LenProperties
  <2>4. its \in [1..Len(its) -> ws]
    BY <2>2, <2>3 DEF ToSet
  <2>5. its \in Seq(ws)
    <3> HIDE DEF its
    <3> QED
      BY <2>3, <2>4
  <2> QED
    BY <2>1, <2>5 DEF Field
<1>2. Len(fs) \in Nat /\ fs \in [1..Len(fs) -> Field(us)]
  BY LenProperties DEF Fields
<1>3. fs \in [1..Len(fs) -> Field(ws)]
  BY <1>1, <1>2
<1> QED
  BY <1>2, <1>3 DEF Fields

(* What is in a message is the least closed set it is in.                  *)
LEMMA InsideClosed ==
  ASSUME NEW w \in Wires, NEW store, \A v \in Wires : ItemsIn(store[v]) \subseteq Wires
  PROVE  /\ Inside(w, store) \subseteq Wires /\ w \in Inside(w, store)
         /\ Closed(Inside(w, store), store)
  BY DEF Inside, Closed

LEMMA InsideLeast ==
  ASSUME NEW w, NEW store, NEW ws \in SUBSET Wires, w \in ws, Closed(ws, store)
  PROVE  Inside(w, store) \subseteq ws
  BY DEF Inside

(* A memory that may be mapped. *)
Store == {store \in [Wires -> Fields(Wires)] : \A w \in Wires : Len(store[w]) <= MaxFields}

LEMMA RemapFinds ==
  ASSUME NEW store \in Store, NEW w \in Wires
  PROVE  /\ Mapped(Remap(w, store)) /\ w \in DOMAIN Remap(w, store)
         /\ DOMAIN Remap(w, store) = Inside(w, store)
         /\ \A u \in Inside(w, store) : /\ Finds(Remap(w, store)[u], store[u])
                                        /\ ItemsIn(store[u]) \subseteq Inside(w, store)
<1> DEFINE ws == Inside(w, store)
<1>1. \A v \in Wires : store[v] \in Fields(Wires) /\ Len(store[v]) <= MaxFields
  BY DEF Store
<1>2. ws \subseteq Wires /\ w \in ws /\ \A u \in ws : ItemsIn(store[u]) \subseteq ws
  BY <1>1, ItemsTyped, InsideClosed DEF Closed
<1> HIDE DEF ws
<1>3. None \notin Seq(ws)
  BY <1>2, SeqMonotonic, MessageAssumption
<1>4. ASSUME NEW u \in ws PROVE MapOf(store[u]) \in Maps(ws) /\ Finds(MapOf(store[u]), store[u])
  <2>1. store[u] \in Fields(ws)
    BY <1>1, <1>2, TypedByItems
  <2> QED
    BY <1>1, <1>2, <1>3, <2>1, MapFinds
<1>5. Remap(w, store) = [u \in ws |-> MapOf(store[u])]
  BY DEF Remap, ws
<1>6. Remap(w, store) \in [ws -> Maps(ws)] /\ \A u \in ws : Remap(w, store)[u] = MapOf(store[u])
  BY <1>4, <1>5
<1>7. Mapped(Remap(w, store))
  BY <1>2, <1>6 DEF Mapped
<1> QED
  BY <1>2, <1>4, <1>5, <1>6, <1>7 DEF ws

LEMMA NoViewMapped == Mapped(NoView) /\ DOMAIN NoView = {}
<1>1. NoView \in [1..0 -> Maps({})]
  BY EmptySeq, LenProperties DEF NoView
<1>2. 1..0 = {}
  OBVIOUS
<1> QED
  BY <1>1, <1>2 DEF Mapped

-----------------------------------------------------------------------------
(* One field more, where there is room.                                    *)
LEMMA RoomFor ==
  ASSUME Contents, HasRoom, NEW w \in Wires PROVE Len(fields[w]) + 1 <= MaxFields
<1> DEFINE All == {p \in Wires \X (1..MaxFields) : p[2] \in DOMAIN fields[p[1]]}
           n == Len(fields[w])
           Own == {w} \X (1..n)
<1>1. /\ n \in Nat /\ DOMAIN fields[w] = 1..n /\ n <= MaxFields
      /\ MaxFields \in Nat /\ MaxWires \in Nat
  BY FieldsTyped, MessageAssumption DEF Contents
<1>2. Own \subseteq All
  BY <1>1
<1>3. IsFiniteSet(All)
  <2>1. IsFiniteSet(Wires) /\ IsFiniteSet(1..MaxFields)
    BY <1>1, FS_Interval DEF Wires
  <2>2. IsFiniteSet(Wires \X (1..MaxFields))
    BY <2>1, FS_Product
  <2>3. All \subseteq Wires \X (1..MaxFields)
    OBVIOUS
  <2> HIDE DEF All
  <2> QED
    BY <2>2, <2>3, FS_Subset
<1>4. Cardinality(Own) = n
  <2> HIDE DEF n
  <2>1. IsFiniteSet({w}) /\ Cardinality({w}) = 1
    BY FS_Singleton
  <2>2. IsFiniteSet(1..n) /\ Cardinality(1..n) = n
    BY <1>1, FS_Interval
  <2>3. Cardinality({w} \X (1..n)) = Cardinality({w}) * Cardinality(1..n)
    BY <2>1, <2>2, FS_Product, Zenon
  <2> QED
    BY <1>1, <2>1, <2>2, <2>3
<1>5. Cardinality(All) < MaxFields
  BY DEF HasRoom
<1> HIDE DEF All, Own
<1>6. Cardinality(Own) <= Cardinality(All)
  BY <1>2, <1>3, FS_Subset
<1>7. Cardinality(All) \in Nat
  BY <1>3, FS_CardinalityType
<1> HIDE DEF n
<1> QED
  BY <1>1, <1>4, <1>5, <1>6, <1>7 DEF n

LEMMA AppendTyped ==
  ASSUME NEW ws, NEW fs \in Fields(ws), NEW f \in Field(ws)
  PROVE  /\ Append(fs, f) \in Fields(ws) /\ Len(Append(fs, f)) = Len(fs) + 1
         /\ ItemsIn(Append(fs, f)) \subseteq ItemsIn(fs) \cup ToSet(f.items)
<1>1. /\ Append(fs, f) \in Fields(ws) /\ Len(Append(fs, f)) = Len(fs) + 1
      /\ \A i \in 1..Len(fs) : Append(fs, f)[i] = fs[i]
      /\ Append(fs, f)[Len(fs) + 1] = f
  BY AppendProperties DEF Fields
<1>2. Len(fs) \in Nat /\ DOMAIN fs = 1..Len(fs) /\ DOMAIN Append(fs, f) = 1..(Len(fs) + 1)
  BY <1>1, FieldsTyped
<1> DEFINE gs == Append(fs, f)
<1> HIDE DEF gs
<1>3. ASSUME NEW i \in DOMAIN gs
      PROVE  ToSet(gs[i].items) \subseteq ItemsIn(fs) \cup ToSet(f.items)
  <2>1. CASE i \in 1..Len(fs)
    BY <1>1, <1>2, <2>1 DEF ItemsIn, gs
  <2>2. CASE i = Len(fs) + 1
    BY <1>1, <2>2 DEF gs
  <2> QED
    BY <1>2, <2>1, <2>2 DEF gs
<1>4. ItemsIn(gs) \subseteq ItemsIn(fs) \cup ToSet(f.items)
  BY <1>3 DEF ItemsIn
<1> QED
  BY <1>1, <1>4 DEF gs

(* A field more, and for a group its items.                                *)
LEMMA AddTyped ==
  ASSUME Contents, HasRoom, NEW w \in Wires, NEW t \in Tags, NEW items \in Seq(Wires),
         AddCommon(w, t, items)
  PROVE  /\ Contents'
         /\ \A v \in Wires \ {w} : fields'[v] = fields[v]
         /\ ItemsIn(fields'[w]) \subseteq ItemsIn(fields[w]) \cup ToSet(items)
<1> DEFINE f == [tag |-> t, items |-> items]
           fs == fields[w]
<1>1. f \in Field(Wires) /\ f.items = items
  BY DEF Field
<1>2. fields \in [Wires -> Fields(Wires)] /\ fs \in Fields(Wires)
  BY DEF Contents
<1>3. fields' = [fields EXCEPT ![w] = Append(fs, f)]
  BY DEF AddCommon
<1> HIDE DEF f, fs
<1>4. /\ Append(fs, f) \in Fields(Wires) /\ Len(Append(fs, f)) = Len(fs) + 1
      /\ ItemsIn(Append(fs, f)) \subseteq ItemsIn(fs) \cup ToSet(items)
  BY <1>1, <1>2, AppendTyped
<1>5. Len(Append(fs, f)) <= MaxFields
  BY <1>4, RoomFor DEF fs
<1>6. /\ fields' \in [Wires -> Fields(Wires)] /\ fields'[w] = Append(fs, f)
      /\ \A v \in Wires \ {w} : fields'[v] = fields[v]
  BY <1>2, <1>3, <1>4
<1>7. \A v \in Wires : Len(fields'[v]) <= MaxFields
  BY <1>5, <1>6 DEF Contents
<1> QED
  BY <1>4, <1>6, <1>7 DEF Contents, fs

(* An item more in a group. *)
LEMMA ItemTyped ==
  ASSUME Contents, NEW w \in Wires, NEW i \in DOMAIN fields[w], NEW item \in Wires,
         fields' = [fields EXCEPT ![w][i].items = Append(@, item)]
  PROVE  /\ Contents'
         /\ \A v \in Wires \ {w} : fields'[v] = fields[v]
         /\ ItemsIn(fields'[w]) \subseteq ItemsIn(fields[w]) \cup {item}
<1> DEFINE fs == fields[w]
           its == fs[i].items
           f == [fs[i] EXCEPT !.items = Append(its, item)]
           gs == [fs EXCEPT ![i] = f]
<1>1. fields \in [Wires -> Fields(Wires)] /\ fs \in Fields(Wires)
  BY DEF Contents
<1>2. fs[i] \in Field(Wires) /\ its \in Seq(Wires) /\ i \in 1..Len(fs) /\ DOMAIN fs = 1..Len(fs)
  BY <1>1, FieldsTyped
<1>3. fields' = [fields EXCEPT ![w] = gs]
  BY <1>1, <1>2 DEF Field
<1>4. Append(its, item) \in Seq(Wires) /\ ToSet(Append(its, item)) = ToSet(its) \cup {item}
  <2> HIDE DEF its
  <2>1. /\ Append(its, item) \in Seq(Wires) /\ Len(Append(its, item)) = Len(its) + 1
        /\ \A k \in 1..Len(its) : Append(its, item)[k] = its[k]
        /\ Append(its, item)[Len(its) + 1] = item
    BY <1>2, AppendProperties
  <2>2. Len(its) \in Nat /\ DOMAIN its = 1..Len(its) /\ DOMAIN Append(its, item) = 1..(Len(its) + 1)
    BY <1>2, <2>1, LenProperties
  <2> DEFINE more == Append(its, item)
  <2> HIDE DEF more
  <2>3. \A k \in 1..(Len(its) + 1) : more[k] = IF k = Len(its) + 1 THEN item ELSE its[k]
    BY <2>1, <2>2 DEF more
  <2>4. ToSet(more) = ToSet(its) \cup {item}
    BY <2>2, <2>3 DEF ToSet, more
  <2> QED
    BY <2>1, <2>4 DEF more
<1>5. f \in Field(Wires) /\ f.items = Append(its, item)
  <2> HIDE DEF its
  <2> QED
    BY <1>2, <1>4 DEF Field
<1> HIDE DEF f
<1>6. /\ gs \in Fields(Wires) /\ Len(gs) = Len(fs)
      /\ \A j \in 1..Len(fs) : gs[j] = IF j = i THEN f ELSE fs[j]
  <2> HIDE DEF fs
  <2> QED
    BY <1>1, <1>2, <1>5, ExceptSeq DEF Fields
<1> HIDE DEF gs
<1>7. ItemsIn(gs) \subseteq ItemsIn(fs) \cup {item}
  <2>1. DOMAIN gs = 1..Len(fs)
    BY <1>6, FieldsTyped
  <2>2. ASSUME NEW j \in 1..Len(fs) PROVE ToSet(gs[j].items) \subseteq ItemsIn(fs) \cup {item}
    <3>1. CASE j = i
      <4>1. ToSet(its) \subseteq ItemsIn(fs)
        BY <1>2 DEF ItemsIn
      <4> HIDE DEF its, fs
      <4> QED
        BY <1>4, <1>5, <1>6, <3>1, <4>1
    <3>2. CASE j # i
      <4> HIDE DEF its, fs
      <4> QED
        BY <1>2, <1>6, <3>2 DEF ItemsIn
    <3> QED
      BY <3>1, <3>2
  <2> HIDE DEF its, fs
  <2> QED
    BY <2>1, <2>2 DEF ItemsIn
<1>8. /\ fields' \in [Wires -> Fields(Wires)] /\ fields'[w] = gs
      /\ \A v \in Wires \ {w} : fields'[v] = fields[v]
  BY <1>1, <1>3, <1>6
<1>9. \A v \in Wires : Len(fields'[v]) <= MaxFields
  BY <1>6, <1>8 DEF Contents
<1> QED
  BY <1>7, <1>8, <1>9 DEF Contents

(* Where the memory grows, what is together stays so.                      *)
Grows == \A w \in Wires : home[w] # None => home'[w] = home[w]

LEMMA TogetherGrows ==
  ASSUME Together, Grows,
         \A w \in Wires : home'[w] = None => home[w] = None /\ fields'[w] = fields[w],
         \A w \in Wires : \A v \in ItemsIn(fields'[w]) :
            v \in ItemsIn(fields[w]) \/ home'[v] = home'[w],
         \A w \in Wires : ItemsIn(fields[w]) \subseteq Wires
  PROVE  Together'
<1>1. ASSUME NEW w \in Wires, NEW v \in ItemsIn(fields[w]) PROVE home'[v] = home'[w]
  <2>1. home[v] = home[w] /\ v \in Wires
    BY DEF Together
  <2>2. home[w] # None
    BY DEF Together, ItemsIn
  <2> QED
    BY <2>1, <2>2 DEF Grows
<1> QED
  BY <1>1 DEF Together

(* What was allocated before stays where it is.                            *)
LEMMA AllocateGrows ==
  ASSUME MemInv, NEW n, NEW a \in Wires \cup {Heap}, Allocate(n, a)
  PROVE  /\ Grows
         /\ \A w \in Wires : home'[w] = None => home[w] = None
         /\ n \in Nat /\ made \in Nat /\ made + n <= MaxWires
         /\ \A w \in made + 1 .. made + n : w \in Wires /\ home'[w] = a /\ home[w] = None
<1>1. n \in Nat /\ made \in Nat /\ made + n <= MaxWires /\ MaxWires \in Nat
  BY MessageAssumption DEF MemInv, MemTypes, Allocate
<1>2. \A w \in Wires : home'[w] = IF w \in made + 1 .. made + n THEN a ELSE home[w]
  BY DEF Allocate
<1>3. \A w \in Wires : w > made => home[w] = None
  BY DEF MemInv, Fresh
<1>4. a # None /\ None # Heap
  BY MessageAssumption
<1> QED
  BY <1>1, <1>2, <1>3, <1>4 DEF Grows, Wires

(* One handle comes to be, and another may lose its arena to it.           *)
LEMMA ViewsPreserved ==
  ASSUME MemInv, Views, Grows, copies \subseteq copies',
         NEW h \in Handles, NEW k, NEW w \in Wires \cup {None}, NEW v, Mapped(v),
         kind' = [kind EXCEPT ![h] = k],
         wire' = [wire EXCEPT ![h] = w],
         view' = [view EXCEPT ![h] = v],
         \A g \in Handles \ {h} : arena'[g] = arena[g] \/ arena'[g] = None,
         k = "message" => w \in DOMAIN v,
         arena'[h] # None /\ w \notin copies' => \A u \in DOMAIN v : home'[u] = arena'[h],
         DOMAIN v \subseteq Wires
  PROVE  Views'
<1>1. /\ wire' \in [Handles -> Wires \cup {None}]
      /\ view' = [g \in Handles |-> view'[g]]
      /\ \A g \in Handles : Mapped(view'[g])
      /\ \A g \in Handles : kind'[g] = "message" => wire'[g] \in DOMAIN view'[g]
  BY DEF Views, MemInv, MemTypes
<1>2. ASSUME NEW g \in Handles, arena'[g] # None, wire'[g] \notin copies', NEW u \in DOMAIN view'[g]
      PROVE  home'[u] = arena'[g]
  <2>1. CASE g = h
    BY <1>2, <2>1 DEF Views
  <2>2. CASE g # h
    <3>1. arena'[g] = arena[g] /\ wire[g] \notin copies /\ view'[g] = view[g]
      BY <1>2, <2>2 DEF Views
    <3>2. home[u] = arena[g] /\ u \in Wires
      BY <1>2, <3>1 DEF Views, Mapped
    <3> QED
      BY <1>2, <3>1, <3>2 DEF Grows
  <2> QED
    BY <2>1, <2>2
<1> QED
  BY <1>1, <1>2 DEF Views

-----------------------------------------------------------------------------
(* The fields of a copy: its items are copies, all of them allocated now. *)
LEMMA CopiesTyped ==
  ASSUME NEW ws, NEW us, NEW copy \in [ws -> us], NEW fs \in Fields(ws), NEW gs,
         gs = [i \in DOMAIN fs |-> [fs[i] EXCEPT !.items = [k \in DOMAIN @ |-> copy[@[k]]]]]
  PROVE  gs \in Fields(us) /\ Len(gs) = Len(fs)
<1>1. Len(fs) \in Nat /\ DOMAIN fs = 1..Len(fs) /\ \A i \in 1..Len(fs) : fs[i] \in Field(ws)
  BY FieldsTyped
<1>2. ASSUME NEW i \in 1..Len(fs) PROVE gs[i] \in Field(us)
  <2> DEFINE its == fs[i].items
             new == [k \in DOMAIN its |-> copy[its[k]]]
  <2>1. fs[i] \in Field(ws) /\ its \in Seq(ws)
    BY <1>1, FieldTyped
  <2>2. Len(its) \in Nat /\ DOMAIN its = 1..Len(its) /\ its \in [1..Len(its) -> ws]
    BY <2>1, LenProperties
  <2>3. new \in [1..Len(its) -> us]
    <3> HIDE DEF its
    <3> QED
      BY <2>2
  <2>4. new \in Seq(us)
    <3> HIDE DEF its, new
    <3> QED
      BY <2>2, <2>3
  <2>5. gs[i] = [fs[i] EXCEPT !.items = new]
    BY <1>1, <2>1 DEF Field
  <2> HIDE DEF its, new
  <2> QED
    BY <2>1, <2>4, <2>5 DEF Field
<1>3. gs = [i \in 1..Len(fs) |-> gs[i]]
  BY <1>1
<1>4. gs \in [1..Len(fs) -> Field(us)]
  BY <1>2, <1>3
<1>5. gs \in Seq(Field(us)) /\ Len(gs) = Len(fs)
  <2> HIDE DEF Field
  <2> QED
    BY <1>1, <1>4
<1> QED
  BY <1>5 DEF Fields

LEMMA CloneTyped ==
  ASSUME MemInv, ContentInv, NEW m \in Handles, NEW c \in Handles, NEW n \in 1..MaxWires,
         Clone(m, c, n)
  PROVE  /\ Contents'
         /\ \A w \in Wires : home'[w] = None => home[w] = None /\ fields'[w] = fields[w]
         /\ \A w \in Wires : \A v \in ItemsIn(fields'[w]) :
              v \in ItemsIn(fields[w]) \/ home'[v] = home'[w]
         /\ made + 1 \in Wires
         /\ Hold(c, "message", made + 1, made + 1, Remap(made + 1, fields'))
<1> DEFINE inside == Inside(wire[m], fields)
           Copy(w) == made + Cardinality({v \in inside : v <= w})
           Copied(fs) == [i \in DOMAIN fs |->
                            [fs[i] EXCEPT !.items = [k \in DOMAIN @ |-> Copy(@[k])]]]
           store == [w \in Wires |-> IF \E v \in inside : Copy(v) = w
                                     THEN Copied(fields[CHOOSE v \in inside : Copy(v) = w])
                                     ELSE fields[w]]
           new == made + 1 .. made + n
           copy == [v \in inside |-> Copy(v)]
<1>1. /\ wire[m] \in Wires /\ n = Cardinality(inside) /\ Allocate(n, CopyHome(m))
      /\ fields' = store /\ Hold(c, "message", made + 1, made + 1, Remap(made + 1, store))
  BY DEF Clone, Usable, Live
<1>2. \A w \in Wires : fields[w] \in Fields(Wires) /\ ItemsIn(fields[w]) \subseteq Wires
  BY ItemsTyped DEF ContentInv, Contents
<1>3. inside \subseteq Wires /\ \A v \in inside : ItemsIn(fields[v]) \subseteq inside
  BY <1>1, <1>2, InsideClosed DEF Closed
<1>4. CopyHome(m) \in Wires \cup {Heap} /\ CopyHome(m) # None
  BY MessageAssumption DEF CopyHome, MemInv, MemTypes
<1>5. /\ n \in Nat /\ made \in Nat /\ made + n <= MaxWires
      /\ \A w \in new : w \in Wires /\ home'[w] = CopyHome(m) /\ home[w] = None
      /\ \A w \in Wires : home'[w] = None => home[w] = None
  BY <1>1, <1>4, AllocateGrows
<1>6. copy \in [inside -> new]
  <2>1. IsFiniteSet(inside)
    <3>1. IsFiniteSet(Wires)
      BY MessageAssumption, FS_Interval DEF Wires
    <3> HIDE DEF inside
    <3> QED
      BY <1>3, <3>1, FS_Subset
  <2>2. ASSUME NEW v \in inside PROVE Copy(v) \in new
    <3> DEFINE low == {u \in inside : u <= v}
    <3>1. low \subseteq inside /\ v \in low
      BY <1>3 DEF Wires
    <3> HIDE DEF low, inside
    <3>2. IsFiniteSet(low) /\ Cardinality(low) <= Cardinality(inside)
      BY <2>1, <3>1, FS_Subset
    <3>3. Cardinality(low) \in Nat /\ Cardinality(low) # 0
      BY <3>1, <3>2, FS_CardinalityType, FS_EmptySet
    <3>4. n = Cardinality(inside) /\ n \in Nat /\ made \in Nat
      BY <1>1, <1>5
    <3>5. made + Cardinality(low) \in new
      BY <3>2, <3>3, <3>4
    <3> QED
      BY <3>5 DEF low
  <2> HIDE DEF Copy, inside, new
  <2> QED
    BY <2>2
<1>7. ASSUME NEW w \in Wires
      PROVE  \/ store[w] = fields[w]
             \/ w \in new /\ store[w] \in Fields(new) /\ Len(store[w]) <= MaxFields
  <2>1. CASE \E v \in inside : Copy(v) = w
    <3> DEFINE v == CHOOSE v \in inside : Copy(v) = w
    <3>1. v \in inside /\ Copy(v) = w
      <4> HIDE DEF Copy, inside
      <4> QED
        BY <2>1
    <3>2. store[w] = Copied(fields[v])
      BY <2>1
    <3> HIDE DEF v, store
    <3>3. w \in new
      <4>1. copy[v] = w
        BY <3>1
      <4> HIDE DEF copy, new, inside
      <4> QED
        BY <1>6, <3>1, <4>1
    <3>4. fields[v] \in Fields(inside)
      <4> HIDE DEF inside
      <4> QED
        BY <1>2, <1>3, <3>1, TypedByItems
    <3> DEFINE fs == fields[v]
    <3> HIDE DEF fs
    <3>5. Copied(fs) = [i \in DOMAIN fs |->
                          [fs[i] EXCEPT !.items = [k \in DOMAIN @ |-> copy[@[k]]]]]
      <4>1. ASSUME NEW i \in DOMAIN fs
            PROVE  [fs[i] EXCEPT !.items = [k \in DOMAIN @ |-> Copy(@[k])]]
                     = [fs[i] EXCEPT !.items = [k \in DOMAIN @ |-> copy[@[k]]]]
        <5>1. fs[i].items \in Seq(inside)
          BY <3>4, FieldsTyped DEF fs
        <5>2. \A k \in DOMAIN fs[i].items : fs[i].items[k] \in inside
          BY <5>1, LenProperties, ElementOfSeq
        <5>3. \A k \in DOMAIN fs[i].items : Copy(fs[i].items[k]) = copy[fs[i].items[k]]
          <6> HIDE DEF inside, Copy
          <6> QED
            BY <5>2
        <5> HIDE DEF Copy, copy, inside
        <5> QED
          BY <5>3
      <4> QED
        BY <4>1
    <3>6. Copied(fs) \in Fields(new) /\ Len(Copied(fs)) = Len(fs)
      <4> HIDE DEF copy, inside, new, Copied
      <4> QED
        BY <1>6, <3>4, <3>5, CopiesTyped DEF fs
    <3>7. Len(fs) <= MaxFields
      BY <1>3, <3>1 DEF fs, ContentInv, Contents
    <3> HIDE DEF Copied, new
    <3> QED
      BY <3>2, <3>3, <3>6, <3>7 DEF fs
  <2>2. CASE ~ \E v \in inside : Copy(v) = w
    <3> HIDE DEF Copy, Copied, inside
    <3> QED
      BY <2>2
  <2> QED
    BY <2>1, <2>2
<1>8. store = [w \in Wires |-> store[w]]
  <2> HIDE DEF Copy, Copied, inside
  <2> QED
    OBVIOUS
<1> HIDE DEF store, copy, Copied, Copy, inside, new
<1>9. Contents'
  <2>1. ASSUME NEW w \in Wires PROVE store[w] \in Fields(Wires) /\ Len(store[w]) <= MaxFields
    <3>1. CASE store[w] = fields[w]
      BY <3>1, <1>2 DEF ContentInv, Contents
    <3>2. CASE w \in new /\ store[w] \in Fields(new) /\ Len(store[w]) <= MaxFields
      <4>1. ItemsIn(store[w]) \subseteq Wires
        BY <1>5, <3>2, ItemsTyped
      <4> QED
        BY <3>2, <4>1, TypedByItems
    <3> QED
      BY <1>7, <3>1, <3>2
  <2>2. store \in [Wires -> Fields(Wires)]
    BY <1>8, <2>1
  <2> QED
    BY <1>1, <2>1, <2>2 DEF Contents
<1>10. ASSUME NEW w \in Wires, NEW v \in ItemsIn(store[w])
       PROVE  v \in ItemsIn(fields[w]) \/ home'[v] = home'[w]
  <2>1. CASE store[w] = fields[w]
    BY <1>10, <2>1
  <2>2. CASE w \in new /\ store[w] \in Fields(new)
    <3>1. v \in new
      BY <1>10, <2>2, ItemsTyped
    <3> QED
      BY <1>5, <2>2, <3>1
  <2> QED
    BY <1>7, <2>1, <2>2
<1>11. \A w \in Wires : home'[w] = None => home[w] = None /\ store[w] = fields[w]
  BY <1>4, <1>5, <1>7
<1>12. made + 1 \in Wires
  BY <1>5, MessageAssumption DEF new, Wires
<1> QED
  BY <1>1, <1>9, <1>10, <1>11, <1>12

-----------------------------------------------------------------------------
LEMMA ContentInvInit == Init => ContentInv
<1> SUFFICES ASSUME Init PROVE ContentInv
  OBVIOUS
<1>1. Contents
  <2>1. <<>> \in Fields(Wires) /\ Len(<<>>) = 0
    BY EmptySeq DEF Fields
  <2>2. fields = [w \in Wires |-> <<>>] /\ MaxFields \in Nat
    BY MessageAssumption DEF Init
  <2> QED
    BY <2>1, <2>2 DEF Contents
<1>2. Together
  BY DEF Init, Together, ItemsIn
<1>3. Views
  BY NoViewMapped DEF Init, Views
<1> QED
  BY <1>1, <1>2, <1>3 DEF ContentInv

(* A message that clone() did not make is with all that is in it in the    *)
(* arena of its owner.                                                     *)
LEMMA InsideAtHome ==
  ASSUME MemInv, ContentInv, NEW h \in Handles, arena[h] # None, wire[h] \notin copies
  PROVE  \A v \in Inside(wire[h], fields) : home[v] = arena[h]
<1> DEFINE ws == {v \in Wires : home[v] = arena[h]}
<1>1. wire[h] \in ws
  BY DEF MemInv, AtHome, Fresh
<1>2. \A v \in Wires : fields[v] \in Fields(Wires)
  BY DEF ContentInv, Contents
<1>3. Closed(ws, fields)
  <2>1. \A v \in Wires : ItemsIn(fields[v]) \subseteq Wires
    BY <1>2, ItemsTyped
  <2> QED
    BY <2>1 DEF Closed, ContentInv, Together
<1>4. Inside(wire[h], fields) \subseteq ws
  <2>1. ws \in SUBSET Wires
    OBVIOUS
  <2> HIDE DEF ws
  <2> QED
    BY <1>1, <1>3, <2>1, InsideLeast
<1> QED
  BY <1>4

(* The contents are mapped, by build() where they are.                     *)
LEMMA StoreTyped == ContentInv => fields \in Store
  BY DEF ContentInv, Contents, Store

LEMMA ItemsInWires == ContentInv => \A w \in Wires : ItemsIn(fields[w]) \subseteq Wires
  BY ItemsTyped DEF ContentInv, Contents

(* The handle h takes the arena of g. *)
LEMMA MoveViews ==
  ASSUME MemInv, ContentInv, NEW g \in Handles, NEW h \in Handles, NEW k, NEW v, Mapped(v),
         kind[g] # "none", Move(g, h, k, v), UNCHANGED memoryVars,
         k = "message" => wire[g] \in DOMAIN v,
         arena[g] # None /\ wire[g] \notin copies => \A u \in DOMAIN v : home[u] = arena[g]
  PROVE  ContentInv'
<1>1. Contents' /\ Together'
  BY DEF memoryVars, ContentInv, Contents, Together, ItemsIn
<1>2. /\ kind' = [kind EXCEPT ![h] = k] /\ wire' = [wire EXCEPT ![h] = wire[g]]
      /\ view' = [view EXCEPT ![h] = v]
      /\ arena' = [arena EXCEPT ![h] = arena[g], ![g] = None]
      /\ kind[h] = "none" /\ h # g
  BY DEF Move, ArenaLeft
<1>3. /\ arena'[h] = arena[g] /\ \A f \in Handles \ {h} : arena'[f] = arena[f] \/ arena'[f] = None
      /\ arena \in [Handles -> Wires \cup {None}]
  BY <1>2 DEF MemInv, MemTypes
<1>4. Grows /\ home' = home /\ copies' = copies
  BY DEF Grows, memoryVars
<1>5. wire[g] \in Wires \cup {None} /\ DOMAIN v \subseteq Wires
  BY DEF ContentInv, Views, Mapped
<1>6. Views
  BY DEF ContentInv
<1>7. arena'[h] # None /\ wire[g] \notin copies' => \A u \in DOMAIN v : home'[u] = arena'[h]
  BY <1>3, <1>4
<1>8. Views'
  BY <1>2, <1>3, <1>4, <1>5, <1>6, <1>7, ViewsPreserved
<1> QED
  BY <1>1, <1>8 DEF ContentInv

(* A new handle on a message. *)
LEMMA HoldViews ==
  ASSUME MemInv, Views, Grows, copies \subseteq copies',
         NEW h \in Handles, NEW k, NEW w \in Wires \cup {None}, NEW a, NEW v, Mapped(v),
         Hold(h, k, w, a, v), k = "message" => w \in DOMAIN v,
         a # None /\ w \notin copies' => \A u \in DOMAIN v : home'[u] = a
  PROVE  Views'
<1>1. /\ kind' = [kind EXCEPT ![h] = k] /\ wire' = [wire EXCEPT ![h] = w]
      /\ view' = [view EXCEPT ![h] = v] /\ arena' = [arena EXCEPT ![h] = a]
  BY DEF Hold
<1>2. arena'[h] = a /\ \A f \in Handles \ {h} : arena'[f] = arena[f] \/ arena'[f] = None
  BY <1>1 DEF MemInv, MemTypes
<1>3. DOMAIN v \subseteq Wires
  BY DEF Mapped
<1> QED
  BY <1>1, <1>2, <1>3, ViewsPreserved

(* The handles stay as they are. *)
LEMMA SameViews ==
  ASSUME MemInv, Views, Grows, UNCHANGED <<handleVars, copies>> PROVE Views'
<1>1. UNCHANGED <<kind, wire, arena, view, copies>>
  BY DEF handleVars
<1>2. ASSUME NEW h \in Handles, arena[h] # None, wire[h] \notin copies, NEW v \in DOMAIN view[h]
      PROVE  home'[v] = arena[h]
  <2>1. home[v] = arena[h] /\ v \in Wires
    BY <1>2 DEF Views, Mapped
  <2> QED
    BY <1>2, <2>1 DEF Grows
<1> QED
  BY <1>1, <1>2 DEF Views

(* A message is created, or a field or an item of one, where it lives.     *)
LEMMA MoreFields ==
  ASSUME MemInv, ContentInv, Contents', Grows,
         \A w \in Wires : home'[w] = None => home[w] = None,
         NEW w \in Wires, home'[w] # None, \A v \in Wires \ {w} : fields'[v] = fields[v],
         \A v \in ItemsIn(fields'[w]) : v \in ItemsIn(fields[w]) \/ home'[v] = home'[w]
  PROVE  Contents' /\ Together'
<1>1. \A v \in Wires : home'[v] = None => home[v] = None /\ fields'[v] = fields[v]
  OBVIOUS
<1>2. \A v \in Wires : \A u \in ItemsIn(fields'[v]) : u \in ItemsIn(fields[v]) \/ home'[u] = home'[v]
  OBVIOUS
<1>3. \A v \in Wires : ItemsIn(fields[v]) \subseteq Wires
  BY ItemsInWires
<1>4. Together
  BY DEF ContentInv
<1> QED
  BY <1>1, <1>2, <1>3, <1>4, TogetherGrows

LEMMA CreateContent == ASSUME MemInv, ContentInv, NEW h \in Handles, Create(h) PROVE ContentInv'
<1>1. /\ Allocate(1, made + 1) /\ Hold(h, "builder", made + 1, made + 1, NoView)
      /\ fields' = fields /\ copies' = copies
  BY DEF Create
<1>2. made + 1 \in Wires
  BY <1>1, MessageAssumption DEF Allocate, MemInv, MemTypes, Wires
<1>3. /\ Grows /\ \A w \in Wires : home'[w] = None => home[w] = None
  BY <1>1, <1>2, AllocateGrows
<1>4. Contents' /\ Together'
  <2>1. Contents'
    BY <1>1 DEF ContentInv, Contents
  <2>2. Together
    BY DEF ContentInv
  <2> QED
    BY <1>1, <1>3, <2>1, <2>2, ItemsInWires, TogetherGrows
<1>5. Views'
  <2>1. Views
    BY DEF ContentInv
  <2>2. Mapped(NoView) /\ DOMAIN NoView = {}
    BY NoViewMapped
  <2> DEFINE k == "builder"
  <2>3. Hold(h, k, made + 1, made + 1, NoView) /\ k # "message"
    BY <1>1
  <2> HIDE DEF k
  <2> QED
    BY <1>1, <1>2, <1>3, <2>1, <2>2, <2>3, HoldViews
<1> QED
  BY <1>4, <1>5 DEF ContentInv

LEMMA AddFieldContent ==
  ASSUME MemInv, ContentInv, NEW h \in Handles, NEW t \in Tags, AddField(h, t) PROVE ContentInv'
<1>1. /\ wire[h] \in Wires /\ home[wire[h]] # None /\ HasRoom /\ AddCommon(wire[h], t, <<>>)
      /\ UNCHANGED <<handleVars, home, copies>>
  BY DEF AddField, Usable, Live
<1>2. <<>> \in Seq(Wires) /\ ToSet(<<>>) = {}
  BY EmptySeq DEF ToSet
<1>3. /\ Contents' /\ \A v \in Wires \ {wire[h]} : fields'[v] = fields[v]
      /\ ItemsIn(fields'[wire[h]]) \subseteq ItemsIn(fields[wire[h]])
  BY <1>1, <1>2, AddTyped DEF ContentInv
<1>4. Grows /\ home' = home
  BY <1>1 DEF Grows
<1>5. Contents' /\ Together'
  BY <1>1, <1>3, <1>4, MoreFields
<1>6. Views'
  BY <1>1, <1>4, SameViews DEF ContentInv
<1> QED
  BY <1>5, <1>6 DEF ContentInv

LEMMA AddGroupContent ==
  ASSUME MemInv, ContentInv, NEW h \in Handles, NEW t \in Tags, NEW n, AddGroup(h, t, n)
  PROVE  ContentInv'
<1> DEFINE w == wire[h]
           items == [i \in 1..n |-> made + i]
<1>1. /\ w \in Wires /\ home[w] # None /\ HasRoom /\ Allocate(n, home[w])
      /\ AddCommon(w, t, items) /\ UNCHANGED <<handleVars, copies>>
  BY DEF AddGroup, Usable, Live
<1>2. home[w] \in Wires \cup {Heap}
  BY <1>1 DEF MemInv, MemTypes
<1> HIDE DEF w
<1>3. /\ Grows /\ \A v \in Wires : home'[v] = None => home[v] = None
      /\ n \in Nat /\ made \in Nat /\ made + n <= MaxWires
      /\ \A v \in made + 1 .. made + n : v \in Wires /\ home'[v] = home[w] /\ home[v] = None
  BY <1>1, <1>2, AllocateGrows
<1>4. items \in Seq(Wires) /\ ToSet(items) \subseteq made + 1 .. made + n
  <2>1. \A i \in 1..n : made + i \in made + 1 .. made + n
    BY <1>3
  <2>2. items \in [1..n -> Wires] /\ DOMAIN items = 1..n
    BY <1>3, <2>1
  <2>3. ToSet(items) \subseteq made + 1 .. made + n
    BY <2>1 DEF ToSet
  <2> HIDE DEF items
  <2> QED
    BY <1>3, <2>2, <2>3
<1> HIDE DEF items
<1>5. /\ Contents' /\ \A v \in Wires \ {w} : fields'[v] = fields[v]
      /\ ItemsIn(fields'[w]) \subseteq ItemsIn(fields[w]) \cup ToSet(items)
  BY <1>1, <1>4, AddTyped DEF ContentInv
<1>6. home'[w] = home[w]
  BY <1>1, <1>3 DEF Grows
<1>7. Contents' /\ Together'
  BY <1>1, <1>3, <1>4, <1>5, <1>6, MoreFields
<1>8. Views'
  BY <1>1, <1>3, SameViews DEF ContentInv
<1> QED
  BY <1>7, <1>8 DEF ContentInv

LEMMA AddItemContent ==
  ASSUME MemInv, ContentInv, NEW h \in Handles, NEW w \in Wires, NEW i, AddGroupItem(w, i, h)
  PROVE  ContentInv'
<1> DEFINE k == "builder"
<1>1. /\ home[w] # None /\ i \in DOMAIN fields[w] /\ Allocate(1, home[w])
      /\ fields' = [fields EXCEPT ![w][i].items = Append(@, made + 1)]
      /\ Hold(h, k, made + 1, None, NoView) /\ copies' = copies /\ k # "message"
  BY DEF AddGroupItem, Live
<1> HIDE DEF k
<1>2. home[w] \in Wires \cup {Heap}
  BY <1>1 DEF MemInv, MemTypes
<1>3. /\ Grows /\ \A v \in Wires : home'[v] = None => home[v] = None
      /\ made \in Nat
      /\ \A v \in made + 1 .. made + 1 : v \in Wires /\ home'[v] = home[w]
  BY <1>1, <1>2, AllocateGrows
<1>4. made + 1 \in Wires /\ home'[made + 1] = home[w] /\ home'[w] = home[w]
  BY <1>1, <1>3 DEF Grows
<1>5. /\ Contents' /\ \A v \in Wires \ {w} : fields'[v] = fields[v]
      /\ ItemsIn(fields'[w]) \subseteq ItemsIn(fields[w]) \cup {made + 1}
  BY <1>1, <1>4, ItemTyped DEF ContentInv
<1>6. Contents' /\ Together'
  BY <1>1, <1>3, <1>4, <1>5, MoreFields
<1>7. Views'
  <2>1. Views /\ Mapped(NoView) /\ DOMAIN NoView = {}
    BY NoViewMapped DEF ContentInv
  <2> QED
    BY <1>1, <1>3, <1>4, <2>1, HoldViews
<1> QED
  BY <1>6, <1>7 DEF ContentInv

LEMMA BuildContent ==
  ASSUME MemInv, ContentInv, NEW g \in Handles, NEW h \in Handles, Build(g, h) PROVE ContentInv'
<1> DEFINE v == Remap(wire[g], fields)
<1>1. /\ wire[g] \in Wires /\ kind[g] # "none" /\ Move(g, h, "message", v) /\ UNCHANGED memoryVars
  BY DEF Build, Usable, Live
<1>2. Mapped(v) /\ wire[g] \in DOMAIN v /\ DOMAIN v = Inside(wire[g], fields)
  BY <1>1, StoreTyped, RemapFinds
<1>3. arena[g] # None /\ wire[g] \notin copies => \A u \in DOMAIN v : home[u] = arena[g]
  BY <1>2, InsideAtHome
<1> HIDE DEF v
<1> QED
  BY <1>1, <1>2, <1>3, MoveViews

(* A builder has no map. *)
LEMMA MoveBuilderContent ==
  ASSUME MemInv, ContentInv, NEW g \in Handles, NEW h \in Handles,
         MoveBuilder(g, h) \/ NewBuilder(g, h)
  PROVE  ContentInv'
<1> DEFINE k == "builder"
<1>1. kind[g] # "none" /\ Move(g, h, k, NoView) /\ UNCHANGED memoryVars /\ k # "message"
  BY DEF MoveBuilder, NewBuilder
<1> HIDE DEF k
<1> QED
  BY <1>1, NoViewMapped, MoveViews

LEMMA TakeItemContent ==
  ASSUME MemInv, ContentInv, NEW g \in Handles, NEW h \in Handles, NEW t \in GroupTags, NEW i,
         TakeItem(g, t, i, h)
  PROVE  ContentInv'
<1> DEFINE items == view[g][wire[g]].group[t]
<1>1. /\ kind[g] = "message" /\ items # None /\ i \in DOMAIN items
      /\ Hold(h, "message", items[i], None, view[g]) /\ UNCHANGED memoryVars
  BY DEF TakeItem
<1>2. PICK ws \in SUBSET Wires : view[g] \in [ws -> Maps(ws)]
  BY DEF ContentInv, Views, Mapped
<1>3. wire[g] \in ws
  BY <1>1, <1>2 DEF ContentInv, Views
<1>4. view[g][wire[g]] \in Maps(ws) /\ t \in Tags
  BY <1>2, <1>3, MessageAssumption
<1>5. items \in Groups(ws)
  BY <1>4 DEF Maps
<1> HIDE DEF items
<1>6. items[i] \in ws
  <2>1. items \in Seq(ws)
    BY <1>1, <1>5 DEF Groups
  <2> QED
    BY <1>1, <2>1, LenProperties, ElementOfSeq
<1>7. items[i] \in Wires /\ items[i] \in DOMAIN view[g] /\ Mapped(view[g])
  BY <1>2, <1>6 DEF Mapped
<1>8. Grows /\ copies' = copies
  BY <1>1 DEF Grows, memoryVars
<1>9. Views'
  BY <1>1, <1>7, <1>8, HoldViews DEF ContentInv
<1>10. Contents' /\ Together'
  BY <1>1 DEF memoryVars, ContentInv, Contents, Together, ItemsIn
<1> QED
  BY <1>9, <1>10 DEF ContentInv

LEMMA CloneContent ==
  ASSUME MemInv, ContentInv, NEW g \in Handles, NEW h \in Handles, NEW n \in 1..MaxWires,
         Clone(g, h, n)
  PROVE  ContentInv'
<1> DEFINE v == Remap(made + 1, fields')
<1>1. /\ Contents'
      /\ \A w \in Wires : home'[w] = None => home[w] = None /\ fields'[w] = fields[w]
      /\ \A w \in Wires : \A u \in ItemsIn(fields'[w]) :
           u \in ItemsIn(fields[w]) \/ home'[u] = home'[w]
      /\ made + 1 \in Wires /\ Hold(h, "message", made + 1, made + 1, v)
  BY CloneTyped
<1>2. CopyHome(g) \in Wires \cup {Heap} /\ Allocate(n, CopyHome(g)) /\ copies' = copies \cup {made + 1}
  BY MessageAssumption DEF Clone, CopyHome, MemInv, MemTypes
<1>3. Grows
  BY <1>2, AllocateGrows
<1>4. Together'
  BY <1>1, <1>3, ItemsInWires, TogetherGrows DEF ContentInv
<1>5. Mapped(v) /\ made + 1 \in DOMAIN v
  BY <1>1, RemapFinds DEF Store, Contents
<1> HIDE DEF v
<1>6. Views'
  BY <1>1, <1>2, <1>3, <1>5, HoldViews DEF ContentInv
<1> QED
  BY <1>1, <1>4, <1>6 DEF ContentInv

(* What is freed is freed together. *)
LEMMA DestroyContent == ASSUME MemInv, ContentInv, NEW h \in Handles, Destroy(h) PROVE ContentInv'
<1>1. /\ kind' = [kind EXCEPT ![h] = "none"]
      /\ wire' = [wire EXCEPT ![h] = None]
      /\ arena' = [arena EXCEPT ![h] = None]
      /\ view' = [view EXCEPT ![h] = NoView]
      /\ home' = [w \in Wires |-> IF home[w] = arena[h] THEN None ELSE home[w]]
      /\ fields' = [w \in Wires |-> IF home[w] = arena[h] THEN <<>> ELSE fields[w]]
      /\ copies' = copies
  BY DEF Destroy
<1>2. Contents'
  <2>1. <<>> \in Fields(Wires) /\ Len(<<>>) = 0 /\ MaxFields \in Nat
    BY EmptySeq, MessageAssumption DEF Fields
  <2> QED
    BY <1>1, <2>1 DEF ContentInv, Contents
<1>3. Together'
  <2>1. ASSUME NEW w \in Wires, home'[w] = None PROVE fields'[w] = <<>>
    BY <1>1, <2>1 DEF ContentInv, Together
  <2>2. ASSUME NEW w \in Wires, NEW v \in ItemsIn(fields'[w]) PROVE home'[v] = home'[w]
    <3>1. fields'[w] = fields[w] /\ home[w] # arena[h]
      BY <1>1, <2>2 DEF ItemsIn
    <3>2. v \in Wires /\ home[v] = home[w]
      BY <2>2, <3>1, ItemsInWires DEF ContentInv, Together
    <3> QED
      BY <1>1, <3>1, <3>2
  <2> QED
    BY <2>1, <2>2 DEF Together
<1>4. Views'
  <2>1. /\ wire' \in [Handles -> Wires \cup {None}]
        /\ view' = [g \in Handles |-> view'[g]]
        /\ \A g \in Handles : Mapped(view'[g])
        /\ \A g \in Handles : kind'[g] = "message" => wire'[g] \in DOMAIN view'[g]
    BY <1>1, NoViewMapped DEF ContentInv, Views, MemInv, MemTypes
  <2>2. ASSUME NEW g \in Handles, arena'[g] # None, wire'[g] \notin copies, NEW v \in DOMAIN view'[g]
        PROVE  home'[v] = arena'[g]
    <3>1. g # h /\ arena'[g] = arena[g] /\ wire'[g] = wire[g] /\ view'[g] = view[g]
      BY <1>1, <2>2 DEF ContentInv, Views, MemInv, MemTypes
    <3>2. home[v] = arena[g] /\ v \in Wires
      BY <2>2, <3>1 DEF ContentInv, Views, Mapped
    <3>3. arena[g] # arena[h]
      BY <2>2, <3>1 DEF MemInv, OneOwner
    <3> QED
      BY <1>1, <3>1, <3>2, <3>3
  <2> QED
    BY <1>1, <2>1, <2>2 DEF Views
<1> QED
  BY <1>2, <1>3, <1>4 DEF ContentInv

LEMMA ContentInvStep == MemInv /\ ContentInv /\ [Next]_vars => ContentInv'
<1> SUFFICES ASSUME MemInv, ContentInv, [Next]_vars PROVE ContentInv'
  OBVIOUS
<1>1. ASSUME NEW h \in Handles, Create(h) PROVE ContentInv'
  BY <1>1, CreateContent
<1>2. ASSUME NEW h \in Handles, Destroy(h) PROVE ContentInv'
  BY <1>2, DestroyContent
<1>3. ASSUME NEW h \in Handles, NEW t \in Tags, AddField(h, t) PROVE ContentInv'
  BY <1>3, AddFieldContent
<1>4. ASSUME NEW h \in Handles, NEW t \in Tags, NEW n \in 0..MaxFields, AddGroup(h, t, n)
      PROVE  ContentInv'
  BY <1>4, AddGroupContent
<1>5. ASSUME NEW h \in Handles, NEW w \in Wires, NEW i \in 1..MaxFields, AddGroupItem(w, i, h)
      PROVE  ContentInv'
  BY <1>5, AddItemContent
<1>6. ASSUME NEW g \in Handles, NEW h \in Handles, MoveBuilder(g, h) \/ NewBuilder(g, h)
      PROVE  ContentInv'
  BY <1>6, MoveBuilderContent
<1>7. ASSUME NEW g \in Handles, NEW h \in Handles, Build(g, h) PROVE ContentInv'
  BY <1>7, BuildContent
<1>8. ASSUME NEW g \in Handles, NEW h \in Handles, NEW n \in 1..MaxWires, Clone(g, h, n)
      PROVE  ContentInv'
  BY <1>8, CloneContent
<1>9. ASSUME NEW g \in Handles, NEW h \in Handles, NEW t \in GroupTags, NEW i \in Wires,
             TakeItem(g, t, i, h)
      PROVE  ContentInv'
  BY <1>9, TakeItemContent
<1>10. CASE UNCHANGED vars
  BY <1>10 DEF vars, handleVars, memoryVars, ContentInv, Contents, Together, Views, ItemsIn
<1> QED
  BY <1>1, <1>2, <1>3, <1>4, <1>5, <1>6, <1>7, <1>8, <1>9, <1>10 DEF Next, Over

-----------------------------------------------------------------------------
LEMMA MessageInv == Spec => [](MemInv /\ ContentInv)
<1>1. Init => MemInv /\ ContentInv
  BY MemInvInit, ContentInvInit
<1>2. MemInv /\ ContentInv /\ [Next]_vars => (MemInv /\ ContentInv)'
  BY MemInvStep, ContentInvStep
<1> QED
  BY <1>1, <1>2, PTL DEF Spec

(* Every variable keeps its type, the maps and the contents included.      *)
THEOREM MessageTyped == Spec => []TypeOK
<1>1. MemInv /\ ContentInv => TypeOK
  <2> SUFFICES ASSUME MemInv, ContentInv PROVE TypeOK
    OBVIOUS
  <2>1. ASSUME NEW h \in Handles, NEW w \in DOMAIN view[h]
        PROVE  w \in Wires /\ view[h][w].field \in [Tags -> 0..MaxFields]
    <3>1. PICK ws \in SUBSET Wires : view[h] \in [ws -> Maps(ws)]
      BY DEF ContentInv, Views, Mapped
    <3>2. view[h][w] \in Maps(ws) /\ w \in Wires
      BY <3>1
    <3> QED
      BY <3>2 DEF Maps
  <2>2. ASSUME NEW w \in Wires, NEW i \in DOMAIN fields[w]
        PROVE  fields[w][i].tag \in Tags /\ ToSet(fields[w][i].items) \subseteq Wires
    <3>1. fields[w] \in Fields(Wires) /\ ItemsIn(fields[w]) \subseteq Wires
      BY ItemsInWires DEF ContentInv, Contents
    <3> QED
      BY <3>1, FieldsTyped DEF ItemsIn
  <2>3. /\ kind \in [Handles -> {"none", "builder", "message"}]
        /\ arena \in [Handles -> Wires \cup {None}]
        /\ home \in [Wires -> Wires \cup {None, Heap}]
        /\ made \in 0..MaxWires /\ copies \subseteq Wires
    BY DEF MemInv, MemTypes
  <2>4. wire \in [Handles -> Wires \cup {None}] /\ DOMAIN fields = Wires
    BY DEF ContentInv, Views, Contents
  <2>5. \A w \in Wires : w > made => home[w] = None
    BY DEF MemInv, Fresh
  <2> QED
    BY <2>1, <2>2, <2>3, <2>4, <2>5 DEF TypeOK
<1> QED
  BY <1>1, MessageInv, PTL

(* The owner of an arena has a live message, with everything in its groups *)
(* and in its map, unless clone() made it.  That exception is the defect   *)
(* the run message_clone shows.                                            *)
THEOREM OwnersUsable == Spec => []OwnerUsable
<1>1. MemInv /\ ContentInv => OwnerUsable
  <2> SUFFICES ASSUME MemInv, ContentInv, NEW h \in Handles, arena[h] # None, wire[h] \notin copies
               PROVE  /\ Live(wire[h])
                      /\ \A v \in Inside(wire[h], fields) \cup DOMAIN view[h] : Live(v)
    BY DEF OwnerUsable
  <2>1. home[wire[h]] = arena[h] /\ wire[h] \in Wires
    BY DEF MemInv, AtHome, Fresh
  <2>2. \A v \in Inside(wire[h], fields) : v \in Wires /\ home[v] = arena[h]
    BY InsideAtHome DEF Inside
  <2>3. \A v \in DOMAIN view[h] : v \in Wires /\ home[v] = arena[h]
    BY DEF ContentInv, Views, Mapped
  <2> QED
    BY <2>1, <2>2, <2>3 DEF Live
<1> QED
  BY <1>1, MessageInv, PTL

(* build() and clone() leave a message that finds all it has: under a      *)
(* scalar's tag the last field, in a group the items of all of them, and   *)
(* so in every message in its groups.                                      *)
THEOREM MessagesFind == Spec => MessageFinds
<1> DEFINE Found == \A h \in Handles : kind[h] = "none" /\ kind'[h] = "message" /\ arena'[h] # None
                      => FindsAll(view[h], wire[h])'
<1>1. ASSUME NEW store \in Store, NEW w \in Wires, NEW v, v = Remap(w, store)
      PROVE  /\ w \in DOMAIN v
             /\ \A u \in DOMAIN v : Finds(v[u], store[u]) /\ ItemsIn(store[u]) \subseteq DOMAIN v
  BY <1>1, RemapFinds
<1>2. MemInv /\ ContentInv /\ ContentInv' /\ [Next]_vars => Found
  <2> SUFFICES ASSUME MemInv, ContentInv, ContentInv', [Next]_vars, NEW c \in Handles,
                      kind[c] = "none", kind'[c] = "message", arena'[c] # None
               PROVE  FindsAll(view[c], wire[c])'
    BY DEF Found
  <2>0. fields' \in Store /\ kind \in [Handles -> {"none", "builder", "message"}]
    BY DEF ContentInv, Contents, Store, MemInv, MemTypes
  <2>1. ASSUME NEW h \in Handles, Create(h) PROVE FALSE
    BY <2>0, <2>1 DEF Create, Hold
  <2>2. ASSUME NEW h \in Handles, Destroy(h) PROVE FALSE
    BY <2>0, <2>2 DEF Destroy
  <2>3. ASSUME NEW h \in Handles, NEW t \in Tags, AddField(h, t) PROVE FALSE
    BY <2>0, <2>3 DEF AddField, handleVars
  <2>4. ASSUME NEW h \in Handles, NEW t \in Tags, NEW n \in 0..MaxFields, AddGroup(h, t, n)
        PROVE  FALSE
    BY <2>0, <2>4 DEF AddGroup, handleVars
  <2>5. ASSUME NEW h \in Handles, NEW w \in Wires, NEW i \in 1..MaxFields, AddGroupItem(w, i, h)
        PROVE  FALSE
    BY <2>0, <2>5 DEF AddGroupItem, Hold
  <2>6. ASSUME NEW g \in Handles, NEW h \in Handles, MoveBuilder(g, h) \/ NewBuilder(g, h)
        PROVE  FALSE
    BY <2>0, <2>6 DEF MoveBuilder, NewBuilder, Move
  <2>7. ASSUME NEW g \in Handles, NEW h \in Handles, Build(g, h)
        PROVE  FindsAll(view[c], wire[c])'
    <3>1. /\ wire[g] \in Wires /\ fields' = fields
          /\ view' = [view EXCEPT ![h] = Remap(wire[g], fields)]
          /\ wire' = [wire EXCEPT ![h] = wire[g]]
          /\ kind' = [kind EXCEPT ![h] = "message"]
      BY <2>7 DEF Build, Usable, Live, Move, memoryVars
    <3>2. c = h
      BY <2>0, <3>1
    <3>3. view'[c] = Remap(wire[g], fields') /\ wire'[c] = wire[g]
      BY <3>1, <3>2 DEF ContentInv, Views
    <3> QED
      BY <1>1, <2>0, <3>1, <3>3 DEF FindsAll
  <2>8. ASSUME NEW g \in Handles, NEW h \in Handles, NEW n \in 1..MaxWires, Clone(g, h, n)
        PROVE  FindsAll(view[c], wire[c])'
    <3>1. made + 1 \in Wires /\ Hold(h, "message", made + 1, made + 1, Remap(made + 1, fields'))
      BY <2>8, CloneTyped
    <3>2. c = h
      BY <2>0, <3>1 DEF Hold
    <3>3. view'[c] = Remap(made + 1, fields') /\ wire'[c] = made + 1
      BY <3>1, <3>2 DEF Hold, ContentInv, Views
    <3> QED
      BY <1>1, <2>0, <3>1, <3>3 DEF FindsAll
  <2>9. ASSUME NEW g \in Handles, NEW h \in Handles, NEW t \in GroupTags, NEW i \in Wires,
               TakeItem(g, t, i, h)
        PROVE  FALSE
    BY <2>0, <2>9 DEF TakeItem, Hold, MemInv, AtHome, MemTypes
  <2>10. CASE UNCHANGED vars
    BY <2>10 DEF vars, handleVars
  <2> QED
    BY <2>1, <2>2, <2>3, <2>4, <2>5, <2>6, <2>7, <2>8, <2>9, <2>10 DEF Next, Over
<1> QED
  <2>1. MemInv /\ ContentInv /\ (MemInv /\ ContentInv)' /\ [Next]_vars => [Found]_vars
    BY <1>2
  <2> QED
    BY <2>1, MessageInv, PTL DEF Spec, MessageFinds
=============================================================================
