------------------------- MODULE Deprecated_proofs -------------------------
(***************************************************************************)
(* Who frees the wire messages and the group items of the deprecated API,  *)
(* and which fields a message finds and removes, for any number of         *)
(* messages, fields and items.                                             *)
(***************************************************************************)
EXTENDS Deprecated, SequenceTheorems, FiniteSetTheorems, TLAPS

(* The part of the state that decides what the destructor deletes. *)
OwnTypes ==
  /\ status \in [Wires -> {"unused", "caller", "owned", "freed"}]
  /\ message = [m \in Messages |-> message[m]]
  /\ \A m \in Messages : message[m].own => message[m].own = TRUE /\ message[m].wire \in Wires

OwnInv == OwnTypes /\ WireOwned

LEMMA RemapFields ==
  ASSUME NEW w, NEW own PROVE Remap(w, own).wire = w /\ Remap(w, own).own = own
  BY DEF Remap

LEMMA NoViewOwnsNothing == NoView.own = FALSE
  BY DEF NoView

LEMMA OwnInvInit == Init => OwnInv
  BY NoViewOwnsNothing DEF Init, OwnInv, OwnTypes, WireOwned, Owns

(* m comes to be, over w, which it owns or not. *)
LEMMA NewMessage ==
  ASSUME OwnInv, NEW m \in Messages, NEW w \in Wires, NEW own \in BOOLEAN, NEW v,
         ~Exists(m), v.wire = w, v.own = own, message' = [message EXCEPT ![m] = v],
         own => status[w] # "owned",
         status' = IF own THEN [status EXCEPT ![w] = "owned"] ELSE status,
         crossed' = crossed
  PROVE  OwnInv'
<1>1. /\ ~message[m].own /\ message'[m] = v
      /\ \A n \in Messages \ {m} : message'[n] = message[n]
  BY NoViewOwnsNothing DEF Exists, OwnInv, OwnTypes
<1>2. OwnTypes'
  BY <1>1 DEF OwnInv, OwnTypes
<1>3. \A n \in Messages, u \in Wires : Owns(n, u)' <=> Owns(n, u) \/ (n = m /\ own /\ u = w)
  BY <1>1 DEF Owns
<1>4. WireOwned'
  <2>1. CASE own
    <3>1. w \notin crossed => \A n \in Messages : ~Owns(n, w)
      BY <2>1 DEF OwnInv, WireOwned
    <3>2. status'[w] = "owned" /\ \A u \in Wires \ {w} : status'[u] = status[u]
      BY <2>1 DEF OwnInv, OwnTypes
    <3> QED
      BY <1>3, <2>1, <3>1, <3>2 DEF OwnInv, WireOwned
  <2>2. CASE ~own
    BY <1>3, <2>2 DEF OwnInv, WireOwned
  <2> QED
    BY <2>1, <2>2
<1> QED
  BY <1>2, <1>4 DEF OwnInv

LEMMA ConstructPreserves ==
  ASSUME OwnInv, NEW m \in Messages, NEW w \in Wires, NEW own \in BOOLEAN, Construct(m, w, own)
  PROVE  OwnInv'
<1> DEFINE v == Remap(w, own)
<1>1. v.wire = w /\ v.own = own
  BY RemapFields
<1>2. /\ ~Exists(m) /\ message' = [message EXCEPT ![m] = v]
      /\ own => status[w] # "owned"
      /\ status' = IF own THEN [status EXCEPT ![w] = "owned"] ELSE status
      /\ crossed' = crossed
  BY DEF Construct
<1> HIDE DEF v
<1> QED
  BY <1>1, <1>2, NewMessage

LEMMA FactoryPreserves ==
  ASSUME OwnInv, NEW m \in Messages, NEW w \in Wires, NEW src \in Wires, Factory(m, w, src)
  PROVE  OwnInv'
<1>1. Remap(w, TRUE)'.wire = w /\ Remap(w, TRUE)'.own = TRUE
  BY DEF Remap
<1> QED
  BY <1>1, NewMessage DEF Factory

(* Who owns nothing owns nothing after; an owner leaves its wire message   *)
(* for another, and both count as crossed.                                 *)
LEMMA AssignPreserves ==
  ASSUME OwnInv, NEW m \in Messages, NEW w \in Wires, Assign(m, w)
  PROVE  OwnInv'
<1>1. /\ message'[m].own = message[m].own /\ message'[m].wire = w /\ status' = status
      /\ message' = [message EXCEPT ![m] = Remapped(m, w)]
      /\ \A n \in Messages \ {m} : message'[n] = message[n]
  BY RemapFields DEF Assign, Remapped, OwnInv, OwnTypes
<1>2. OwnTypes'
  BY <1>1 DEF OwnInv, OwnTypes
<1>3. \A v \in Wires, n \in Messages :
        v \notin crossed' => (v \notin crossed /\ (Owns(n, v)' <=> Owns(n, v)))
  BY <1>1 DEF Assign, Owns
<1>4. WireOwned'
  BY <1>1, <1>3 DEF OwnInv, WireOwned
<1> QED
  BY <1>2, <1>4 DEF OwnInv

(* The wire message goes with its only owner. *)
LEMMA DestroyPreserves == ASSUME OwnInv, NEW m \in Messages, Destroy(m) PROVE OwnInv'
<1>1. /\ message'[m] = NoView /\ message' = [message EXCEPT ![m] = NoView]
      /\ \A n \in Messages \ {m} : message'[n] = message[n]
  BY DEF Destroy, OwnInv, OwnTypes
<1>2. ~message'[m].own
  BY <1>1, NoViewOwnsNothing
<1>3. CASE message[m].own
  <2>1. message[m].wire \in Wires /\ status' = [status EXCEPT ![message[m].wire] = "freed"]
    BY <1>3 DEF Destroy, DeletesWire, OwnInv, OwnTypes
  <2>2. OwnTypes'
    BY <1>1, <1>2, <2>1 DEF OwnInv, OwnTypes
  <2>3. WireOwned'
    <3> DEFINE gone == message[m].wire
    <3>1. gone \notin crossed => \A n \in Messages : ~(message'[n].own /\ message'[n].wire = gone)
      BY <1>1, <1>2, <1>3, <2>1 DEF OwnInv, WireOwned, Owns
    <3>2. status'[gone] = "freed" /\ \A w \in Wires \ {gone} : status'[w] = status[w]
      BY <2>1 DEF OwnInv, OwnTypes
    <3>3. \A n \in Messages, w \in Wires \ {gone} :
            (message'[n].own /\ message'[n].wire = w) <=> (message[n].own /\ message[n].wire = w)
      BY <1>1, <1>2
    <3>4. crossed' = crossed
      BY DEF Destroy
    <3> QED
      BY <3>1, <3>2, <3>3, <3>4 DEF OwnInv, WireOwned, Owns
  <2> QED
    BY <2>2, <2>3 DEF OwnInv
<1>4. CASE ~message[m].own
  <2>1. status' = status /\ crossed' = crossed
    BY <1>4 DEF Destroy, DeletesWire
  <2>2. OwnTypes'
    BY <1>1, <1>2, <2>1 DEF OwnInv, OwnTypes
  <2>3. WireOwned'
    BY <1>1, <1>2, <1>4, <2>1 DEF OwnInv, OwnTypes, WireOwned, Owns
  <2> QED
    BY <2>2, <2>3 DEF OwnInv
<1> QED
  BY <1>3, <1>4

(* Each wire message that is owned has one owner to delete it, and the     *)
(* caller's have none, whatever is built, assigned, parsed and destroyed:  *)
(* operator= on an owner does no harm but to the wire message it leaves    *)
(* and the one it takes.                                                   *)
THEOREM WiresOwned == Spec => []WireOwned
<1>1. OwnInv /\ [Next]_vars => OwnInv'
  <2> SUFFICES ASSUME OwnInv, [Next]_vars PROVE OwnInv'
    OBVIOUS
  <2>1. ASSUME NEW w \in Wires, NewWire(w) \/ FreeWire(w) PROVE OwnInv'
    BY <2>1 DEF NewWire, FreeWire, OwnInv, OwnTypes, WireOwned, Owns
  <2>2. ASSUME UNCHANGED <<status, message, crossed>> PROVE OwnInv'
    BY <2>2 DEF OwnInv, OwnTypes, WireOwned, Owns
  <2>3. ASSUME NEW w \in Wires,
               (\E tag \in Tags : AddField(w, tag)) \/ \E i \in DOMAIN fields[w] : AddMsg(w, i)
        PROVE  OwnInv'
    BY <2>2, <2>3 DEF AddField, AddMsg
  <2>4. ASSUME NEW m \in Messages, NEW tag \in Tags, RemoveField(m, tag) PROVE OwnInv'
    BY <2>2, <2>4 DEF RemoveField
  <2>5. CASE UNCHANGED vars
    BY <2>2, <2>5 DEF vars
  <2> QED
    BY <2>1, <2>3, <2>4, <2>5, ConstructPreserves, FactoryPreserves, AssignPreserves,
       DestroyPreserves DEF Next
<1>2. OwnInv => WireOwned
  BY DEF OwnInv
<1> QED
  BY OwnInvInit, <1>1, <1>2, PTL DEF Spec

-----------------------------------------------------------------------------
(* What a message finds: the fields of its wire message have the order in  *)
(* which they were made, so erasing at a stale position meets later ones.  *)
Field == [id : Nat, tag : Tags, items : Nat]
InOrder(fs, n) ==
  /\ fs \in Seq(Field)
  /\ \A i \in 1..Len(fs) : fs[i].id <= n
  /\ \A i, j \in 1..Len(fs) : j < i => fs[j].id < fs[i].id

(* A view of a live wire message, whose fields are fs. *)
Maps(view, n) ==
  /\ DOMAIN view.find = DOMAIN view.index
  /\ \A t \in DOMAIN view.find : view.index[t] \in Nat \ {0} /\ view.find[t] \in 0..n
NoEarlier(view, fs) ==
  \A t \in DOMAIN view.find :
    view.index[t] <= Len(fs) => view.find[t] <= fs[view.index[t]].id
First(view, fs) ==
  \A t \in DOMAIN view.find :
    /\ view.index[t] <= Len(fs)
    /\ fs[view.index[t]].tag = t /\ fs[view.index[t]].id = view.find[t]
    /\ \A j \in 1..view.index[t]-1 : fs[j].tag # t

Viewed(m) ==
  LET view == message[m]
      fs   == fields[message[m].wire]
  IN /\ view.wire \in Wires /\ status[view.wire] # "unused"
     /\ Maps(view, made)
     /\ Alive(view.wire) => NoEarlier(view, fs) /\ (m \notin stale => First(view, fs))

ViewInv ==
  /\ made \in Nat
  /\ status = [w \in Wires |-> status[w]]
  /\ fields = [w \in Wires |-> fields[w]] /\ \A w \in Wires : InOrder(fields[w], made)
  /\ message = [m \in Messages |-> message[m]]
  /\ \A m \in Messages : Exists(m) => Viewed(m)

(* remap(), of a sequence of fields. *)
ViewOf(fs, w, own) ==
  [wire   |-> w, own |-> own,
   find   |-> [t \in TagsOf(fs) |-> fs[FirstOf(fs, t)].id],
   index  |-> [t \in TagsOf(fs) |-> Position(fs, t)],
   groups |-> [t \in {u \in TagsOf(fs) : ItemsOf(fs, u) > 0} |-> ItemsOf(fs, t)]]

Below == {pair \in Nat \X Nat : pair[1] < pair[2]}

(* A set of numbers has a least one, which Min gives. *)
LEMMA MinIsLeast ==
  ASSUME NEW S \in SUBSET Nat, S # {} PROVE Min(S) \in S /\ \A y \in S : Min(S) <= y
<1>1. IsWellFoundedOn(Below, Nat)
  BY NatLessThanWellFounded DEF OpToRel, Below
<1>2. PICK x \in S : \A y \in S : <<y, x>> \notin Below
  BY <1>1, WFMin
<1>3. ASSUME NEW y \in S PROVE x <= y
  <2>1. y < x => <<y, x>> \in Below
    BY DEF Below
  <2> QED
    BY <1>2, <2>1
<1> QED
  BY <1>3, Zenon DEF Min

(* What erasing the k-th element leaves. *)
LEMMA Erased ==
  ASSUME NEW S, NEW s \in Seq(S), NEW k \in 1..Len(s)
  PROVE  /\ RemoveAt(s, k) \in Seq(S) /\ Len(RemoveAt(s, k)) = Len(s) - 1
         /\ \A i \in 1..Len(s)-1 : RemoveAt(s, k)[i] = s[IF i < k THEN i ELSE i + 1]
<1> DEFINE a == SubSeq(s, 1, k-1)
           b == SubSeq(s, k+1, Len(s))
<1>1. Len(s) \in Nat /\ k \in Nat /\ \A i \in 1..Len(s) : s[i] \in S
  BY LenProperties, ElementOfSeq
<1>2. a \in Seq(S) /\ Len(a) = k - 1 /\ \A i \in 1..k-1 : a[i] = s[i]
  <2>1. /\ a \in Seq(S) /\ Len(a) = IF 1 <= k-1 THEN k-1-1+1 ELSE 0
        /\ \A i \in 1..k-1-1+1 : a[i] = s[1+i-1]
    BY <1>1, SubSeqProperties
  <2> HIDE DEF a
  <2> QED
    BY <1>1, <2>1
<1>3. b \in Seq(S) /\ Len(b) = Len(s) - k /\ \A i \in 1..Len(s)-k : b[i] = s[k+i]
  <2>1. k+1 \in Int /\ Len(s) \in Int /\ \A i \in k+1..Len(s) : s[i] \in S
    BY <1>1
  <2>2. /\ b \in Seq(S) /\ Len(b) = IF k+1 <= Len(s) THEN Len(s)-(k+1)+1 ELSE 0
        /\ \A i \in 1..Len(s)-(k+1)+1 : b[i] = s[k+1+i-1]
    BY <2>1, SubSeqProperties
  <2> HIDE DEF b
  <2> QED
    BY <1>1, <2>2
<1>4. RemoveAt(s, k) = a \o b
  BY DEF RemoveAt
<1> HIDE DEF a, b
<1>5. /\ a \o b \in Seq(S) /\ Len(a \o b) = Len(s) - 1
      /\ \A i \in 1..Len(s)-1 : (a \o b)[i] = IF i <= k-1 THEN a[i] ELSE b[i - (k-1)]
  BY <1>1, <1>2, <1>3, ConcatProperties
<1>6. ASSUME NEW i \in 1..Len(s)-1 PROVE (a \o b)[i] = s[IF i < k THEN i ELSE i + 1]
  <2>1. i \in Nat /\ (i < k \/ i >= k)
    BY <1>1
  <2>2. CASE i < k
    BY <1>1, <1>2, <1>5, <2>2
  <2>3. CASE i >= k
    <3> DEFINE j == i - (k-1)
    <3>1. j \in 1..Len(s)-k /\ k + j = i + 1
      BY <1>1, <2>1, <2>3
    <3>2. (a \o b)[i] = b[j]
      BY <1>1, <1>5, <2>1, <2>3
    <3> HIDE DEF j
    <3>3. b[j] = s[k+j]
      BY <1>3, <3>1
    <3> QED
      BY <1>1, <2>1, <2>3, <3>1, <3>2, <3>3
  <2> QED
    BY <2>1, <2>2, <2>3
<1> QED
  BY <1>4, <1>5, <1>6

-----------------------------------------------------------------------------
LEMMA FieldTyped ==
  ASSUME NEW fs, NEW n, InOrder(fs, n)
  PROVE  /\ fs \in Seq(Field) /\ Len(fs) \in Nat /\ DOMAIN fs = 1..Len(fs)
         /\ \A i \in 1..Len(fs) : fs[i] \in Field /\ fs[i].id \in Nat
<1>1. fs \in Seq(Field) /\ Len(fs) \in Nat /\ DOMAIN fs = 1..Len(fs)
  BY LenProperties DEF InOrder
<1>2. \A i \in 1..Len(fs) : fs[i] \in Field
  BY <1>1, ElementOfSeq
<1> QED
  BY <1>1, <1>2 DEF Field

LEMMA FieldChanged ==
  ASSUME NEW f \in Field, NEW n \in Nat
  PROVE  /\ [f EXCEPT !.id = n] \in Field /\ [f EXCEPT !.id = n].id = n
         /\ [f EXCEPT !.items = n] \in Field
         /\ [f EXCEPT !.items = n].id = f.id /\ [f EXCEPT !.items = n].tag = f.tag
BY DEF Field

LEMMA Later ==
  ASSUME NEW n \in Nat, NEW p \in Nat, n <= p
  PROVE  /\ \A fs : InOrder(fs, n) => InOrder(fs, p)
         /\ \A view : Maps(view, n) => Maps(view, p)
<1>1. ASSUME NEW fs, InOrder(fs, n) PROVE InOrder(fs, p)
  <2>1. \A i \in 1..Len(fs) : fs[i].id \in Nat
    BY <1>1, FieldTyped
  <2> QED
    BY <1>1, <2>1 DEF InOrder
<1>2. ASSUME NEW view, Maps(view, n) PROVE Maps(view, p)
  BY <1>2 DEF Maps
<1> QED
  BY <1>1, <1>2

(* A field that is made comes last, and is the youngest. *)
LEMMA FieldAdded ==
  ASSUME NEW fs, NEW n \in Nat, InOrder(fs, n), NEW f \in Field, f.id = n + 1,
         NEW view, Maps(view, n)
  PROVE  /\ NoEarlier(view, fs) => NoEarlier(view, Append(fs, f))
         /\ First(view, fs) => First(view, Append(fs, f))
<1> DEFINE gs == Append(fs, f)
<1>1. Len(fs) \in Nat /\ Len(gs) = Len(fs) + 1 /\ gs[Len(fs)+1] = f
      /\ \A i \in 1..Len(fs) : gs[i] = fs[i]
  BY FieldTyped, AppendProperties
<1> HIDE DEF gs
<1>2. \A t \in DOMAIN view.find : view.index[t] \in Nat \ {0} /\ view.find[t] \in 0..n
  BY DEF Maps
<1>3. NoEarlier(view, fs) => NoEarlier(view, gs)
  <2> SUFFICES ASSUME NoEarlier(view, fs), NEW t \in DOMAIN view.find, view.index[t] <= Len(gs)
               PROVE  view.find[t] <= gs[view.index[t]].id
    BY DEF NoEarlier
  <2>1. CASE view.index[t] <= Len(fs)
    BY <1>1, <1>2, <2>1 DEF NoEarlier
  <2>2. CASE view.index[t] = Len(fs) + 1
    BY <1>1, <1>2, <2>2
  <2> QED
    BY <1>1, <1>2, <2>1, <2>2
<1>4. First(view, fs) => First(view, gs)
  BY <1>1, <1>2 DEF First
<1> QED
  BY <1>3, <1>4 DEF gs

LEMMA AddedInOrder ==
  ASSUME NEW fs, NEW n \in Nat, InOrder(fs, n), NEW f \in Field, f.id = n + 1
  PROVE  InOrder(Append(fs, f), n + 1)
<1> DEFINE gs == Append(fs, f)
<1>1. /\ Len(fs) \in Nat /\ Len(gs) = Len(fs) + 1 /\ gs[Len(fs)+1] = f /\ gs \in Seq(Field)
      /\ \A i \in 1..Len(fs) : gs[i] = fs[i] /\ fs[i].id \in Nat
  BY FieldTyped, AppendProperties
<1> HIDE DEF gs
<1>2. ASSUME NEW i \in 1..Len(gs) PROVE gs[i].id <= n + 1
  <2>1. CASE i \in 1..Len(fs)
    <3>1. fs[i].id <= n /\ fs[i].id \in Nat /\ gs[i] = fs[i]
      BY <1>1, <2>1 DEF InOrder
    <3> QED
      BY <3>1
  <2>2. CASE i = Len(fs) + 1
    BY <1>1, <2>2
  <2> QED
    BY <1>1, <2>1, <2>2
<1>3. \A i, j \in 1..Len(gs) : j < i => gs[j].id < gs[i].id
  <2> SUFFICES ASSUME NEW i \in 1..Len(gs), NEW j \in 1..Len(gs), j < i
               PROVE  gs[j].id < gs[i].id
    OBVIOUS
  <2>0. j \in 1..Len(fs) /\ gs[j] = fs[j] /\ fs[j].id \in Nat /\ fs[j].id <= n
    BY <1>1 DEF InOrder
  <2>1. CASE i \in 1..Len(fs)
    BY <1>1, <2>0, <2>1 DEF InOrder
  <2>2. CASE i = Len(fs) + 1
    BY <1>1, <2>0, <2>2
  <2> QED
    BY <1>1, <2>1, <2>2
<1>4. InOrder(gs, n + 1)
  BY <1>1, <1>2, <1>3 DEF InOrder
<1> QED
  BY <1>4 DEF gs

(* An item more in a field is seen in no other way. *)
LEMMA ItemAdded ==
  ASSUME NEW fs, NEW n \in Nat, InOrder(fs, n), NEW gs \in Seq(Field), Len(gs) = Len(fs),
         \A i \in 1..Len(fs) : gs[i].id = fs[i].id /\ gs[i].tag = fs[i].tag
  PROVE  /\ InOrder(gs, n)
         /\ \A view : Maps(view, n) /\ NoEarlier(view, fs) => NoEarlier(view, gs)
         /\ \A view : Maps(view, n) /\ First(view, fs) => First(view, gs)
<1>1. InOrder(gs, n)
  BY DEF InOrder
<1>2. Len(fs) \in Nat
  BY FieldTyped
<1>3. ASSUME NEW view, Maps(view, n), NoEarlier(view, fs) PROVE NoEarlier(view, gs)
  BY <1>2, <1>3 DEF Maps, NoEarlier
<1>4. ASSUME NEW view, Maps(view, n), First(view, fs) PROVE First(view, gs)
  BY <1>2, <1>4 DEF Maps, First
<1> QED
  BY <1>1, <1>3, <1>4

(* Where a field is erased, later ones follow. *)
LEMMA FieldErased ==
  ASSUME NEW fs, NEW n \in Nat, InOrder(fs, n), NEW k \in 1..Len(fs)
  PROVE  /\ InOrder(RemoveAt(fs, k), n)
         /\ fs[k].id \notin Ids(RemoveAt(fs, k))
         /\ \A view : Maps(view, n) /\ NoEarlier(view, fs) => NoEarlier(view, RemoveAt(fs, k))
<1> DEFINE gs == RemoveAt(fs, k)
           Old(i) == IF i < k THEN i ELSE i + 1
<1>1. /\ gs \in Seq(Field) /\ Len(fs) \in Nat /\ Len(gs) = Len(fs) - 1 /\ DOMAIN gs = 1..Len(gs)
      /\ \A i \in 1..Len(gs) : gs[i] = fs[Old(i)]
      /\ \A i \in 1..Len(fs) : fs[i].id \in Nat
  <2>1. fs \in Seq(Field) /\ Len(fs) \in Nat /\ \A i \in 1..Len(fs) : fs[i].id \in Nat
    BY FieldTyped
  <2>2. gs \in Seq(Field) /\ Len(gs) = Len(fs) - 1 /\ \A i \in 1..Len(fs)-1 : gs[i] = fs[Old(i)]
    BY <2>1, Erased
  <2> HIDE DEF gs, Old
  <2> QED
    BY <2>1, <2>2, LenProperties
<1> HIDE DEF gs
<1>2. \A i \in 1..Len(gs) : /\ Old(i) \in 1..Len(fs) /\ i <= Old(i) /\ Old(i) # k
                            /\ \A j \in 1..Len(gs) : j < i => Old(j) < Old(i)
  BY <1>1
<1> HIDE DEF Old
<1>3. InOrder(gs, n)
  BY <1>1, <1>2 DEF InOrder
<1>4. \A i, j \in 1..Len(fs) : j # i => fs[j].id # fs[i].id
  BY <1>1 DEF InOrder
<1>5. fs[k].id \notin Ids(gs)
  <2>1. ASSUME NEW i \in 1..Len(gs) PROVE gs[i].id # fs[k].id
    BY <1>1, <1>2, <1>4
  <2> QED
    BY <1>1, <2>1 DEF Ids
<1>6. ASSUME NEW view, Maps(view, n), NoEarlier(view, fs) PROVE NoEarlier(view, gs)
  <2> SUFFICES ASSUME NEW t \in DOMAIN view.find, view.index[t] <= Len(gs)
               PROVE  view.find[t] <= gs[view.index[t]].id
    BY DEF NoEarlier
  <2> DEFINE i == view.index[t]
  <2>1. i \in 1..Len(gs) /\ i \in 1..Len(fs) /\ view.find[t] \in Nat /\ view.find[t] <= fs[i].id
    BY <1>1, <1>6 DEF Maps, NoEarlier
  <2> HIDE DEF i
  <2>2. fs[i].id <= fs[Old(i)].id /\ fs[i].id \in Nat /\ fs[Old(i)].id \in Nat
    <3>1. Old(i) \in 1..Len(fs) /\ (i = Old(i) \/ i < Old(i)) /\ fs[i].id \in Nat
      BY <1>1, <1>2, <2>1
    <3>2. i < Old(i) => fs[i].id < fs[Old(i)].id
      BY <2>1, <3>1 DEF InOrder
    <3> QED
      BY <1>1, <3>1, <3>2
  <2>3. gs[i] = fs[Old(i)]
    BY <1>1, <2>1
  <2>4. view.find[t] <= gs[i].id
    <3>1. gs[i].id = fs[Old(i)].id
      BY <2>3
    <3>2. view.find[t] <= fs[Old(i)].id
      <4>1. \A a, b, c \in Nat : a <= b /\ b <= c => a <= c
        OBVIOUS
      <4> QED
        BY <2>1, <2>2, <4>1
    <3> QED
      BY <3>1, <3>2
  <2> QED
    BY <2>4 DEF i
<1> QED
  BY <1>3, <1>5, <1>6 DEF gs

(* A message that is mapped finds the first field of every tag. *)
LEMMA MappedFirst ==
  ASSUME NEW fs, NEW n \in Nat, InOrder(fs, n), NEW w, NEW own
  PROVE  LET view == ViewOf(fs, w, own)
         IN view.wire = w /\ Maps(view, n) /\ First(view, fs) /\ NoEarlier(view, fs)
<1> DEFINE view == ViewOf(fs, w, own)
<1>1. /\ view.wire = w /\ DOMAIN view.find = TagsOf(fs) /\ DOMAIN view.index = TagsOf(fs)
      /\ \A t \in TagsOf(fs) : view.index[t] = FirstOf(fs, t) /\ view.find[t] = fs[FirstOf(fs, t)].id
  BY DEF ViewOf, Position
<1>2. Len(fs) \in Nat /\ DOMAIN fs = 1..Len(fs) /\ \A i \in 1..Len(fs) : fs[i].id \in 0..n
  <2>1. /\ Len(fs) \in Nat /\ DOMAIN fs = 1..Len(fs)
        /\ \A i \in 1..Len(fs) : fs[i].id \in Nat
    BY FieldTyped
  <2> QED
    BY <2>1 DEF InOrder
<1> HIDE DEF view
<1>3. ASSUME NEW t \in TagsOf(fs)
      PROVE  /\ FirstOf(fs, t) \in 1..Len(fs) /\ fs[FirstOf(fs, t)].tag = t
             /\ \A j \in 1..FirstOf(fs, t)-1 : fs[j].tag # t
  <2>1. At(fs, t) \in SUBSET Nat /\ At(fs, t) # {}
    BY <1>2 DEF At, TagsOf
  <2>2. FirstOf(fs, t) \in At(fs, t) /\ \A j \in At(fs, t) : FirstOf(fs, t) <= j
    BY <2>1, MinIsLeast DEF FirstOf
  <2> QED
    BY <1>2, <2>2 DEF At
<1>4. First(view, fs)
  BY <1>1, <1>2, <1>3 DEF First
<1>5. Maps(view, n) /\ NoEarlier(view, fs)
  BY <1>1, <1>2, <1>3 DEF Maps, NoEarlier
<1> QED
  BY <1>1, <1>4, <1>5 DEF view

-----------------------------------------------------------------------------
LEMMA ViewInit == Init => ViewInv
<1> SUFFICES ASSUME Init PROVE ViewInv
  OBVIOUS
<1>1. InOrder(<<>>, 0)
  BY EmptySeq DEF InOrder
<1> QED
  BY <1>1 DEF Init, ViewInv, Exists

(* A message whose wire message a step leaves alone, or frees. *)
LEMMA Unaffected ==
  ASSUME ViewInv, NEW n \in Messages, Exists(n), message'[n] = message[n],
         made' \in Nat, made <= made', n \in stale => n \in stale',
         status'[message[n].wire] # "unused",
         status'[message[n].wire] \in {"caller", "owned"} =>
           /\ Alive(message[n].wire)
           /\ fields'[message[n].wire] = fields[message[n].wire]
  PROVE  Viewed(n)'
<1>1. Viewed(n)
  BY DEF ViewInv
<1>2. Maps(message[n], made')
  BY <1>1, Later DEF Viewed, ViewInv
<1> QED
  BY <1>1, <1>2 DEF Viewed, Alive

LEMMA SilentViews ==
  ASSUME ViewInv, UNCHANGED <<status, fields, made, message, stale>> PROVE ViewInv'
<1>1. ASSUME NEW n \in Messages, Exists(n)' PROVE Viewed(n)'
  <2>1. Viewed(n)
    BY <1>1 DEF ViewInv, Exists
  <2> QED
    BY <2>1 DEF Viewed, Alive
<1> QED
  BY <1>1 DEF ViewInv

LEMMA WireViews ==
  ASSUME ViewInv, NEW w \in Wires, NewWire(w) \/ FreeWire(w) PROVE ViewInv'
<1>1. /\ UNCHANGED <<made, message, stale>>
      /\ \/ status[w] = "unused" /\ status' = [status EXCEPT ![w] = "caller"] /\ fields' = fields
         \/ /\ status' = [status EXCEPT ![w] = "freed"] /\ fields' = [fields EXCEPT ![w] = <<>>]
  BY DEF NewWire, FreeWire
<1>2. ASSUME NEW n \in Messages, Exists(n)' PROVE Viewed(n)'
  <2>1. Exists(n) /\ Viewed(n)
    BY <1>1, <1>2 DEF ViewInv, Exists
  <2>2. /\ status'[message[n].wire] # "unused"
        /\ status'[message[n].wire] \in {"caller", "owned"} =>
             /\ Alive(message[n].wire)
             /\ fields'[message[n].wire] = fields[message[n].wire]
    BY <1>1, <2>1 DEF ViewInv, Viewed, Alive
  <2>3. made' \in Nat /\ made <= made'
    BY <1>1 DEF ViewInv
  <2> QED
    BY <1>1, <2>1, <2>2, <2>3, Unaffected
<1>3. ASSUME NEW v \in Wires PROVE InOrder(fields'[v], made)
  <2>1. InOrder(<<>>, made)
    BY EmptySeq DEF InOrder
  <2> QED
    BY <1>1, <2>1 DEF ViewInv
<1> QED
  BY <1>1, <1>2, <1>3 DEF ViewInv

(* The fields of one wire message change, to gs. *)
LEMMA FieldsViews ==
  ASSUME ViewInv, NEW w \in Wires, NEW gs, fields' = [fields EXCEPT ![w] = gs],
         made' \in Nat, made <= made', InOrder(gs, made'), UNCHANGED <<status, message>>,
         stale \subseteq stale',
         \A n \in Messages : /\ Exists(n) /\ message[n].wire = w /\ Maps(message[n], made)
                             /\ NoEarlier(message[n], fields[w])
                             /\ n \notin stale => First(message[n], fields[w])
                             => /\ NoEarlier(message[n], gs)
                                /\ n \notin stale' => First(message[n], gs)
  PROVE  ViewInv'
<1>1. ASSUME NEW n \in Messages, Exists(n)' PROVE Viewed(n)'
  <2>1. Exists(n) /\ Viewed(n)
    BY <1>1 DEF ViewInv, Exists
  <2>2. CASE message[n].wire # w
    <3>1. fields'[message[n].wire] = fields[message[n].wire] /\ status' = status
      BY <2>1, <2>2 DEF ViewInv, Viewed
    <3> QED
      BY <2>1, <3>1, Unaffected DEF Viewed, Alive
  <2>3. CASE message[n].wire = w
    <3>1. fields'[w] = gs /\ Maps(message[n], made')
      BY <2>1, Later DEF ViewInv, Viewed
    <3> QED
      BY <2>1, <2>3, <3>1 DEF Viewed, Alive
  <2> QED
    BY <2>2, <2>3
<1>2. ASSUME NEW v \in Wires PROVE InOrder(fields'[v], made')
  BY Later DEF ViewInv
<1> QED
  BY <1>1, <1>2 DEF ViewInv

LEMMA AddFieldViews ==
  ASSUME ViewInv, NEW w \in Wires, NEW tag \in Tags, AddField(w, tag) PROVE ViewInv'
<1> DEFINE f == [id |-> made + 1, tag |-> tag, items |-> 0]
           gs == Append(fields[w], f)
<1>1. f \in Field /\ f.id = made + 1 /\ made \in Nat /\ InOrder(fields[w], made)
  BY DEF ViewInv, Field
<1>2. /\ made' = made + 1 /\ fields' = [fields EXCEPT ![w] = gs]
      /\ UNCHANGED <<status, message, stale>>
  BY DEF AddField
<1> HIDE DEF f
<1>3. InOrder(gs, made')
  BY <1>1, <1>2, AddedInOrder
<1>4. \A view : Maps(view, made) => /\ NoEarlier(view, fields[w]) => NoEarlier(view, gs)
                                    /\ First(view, fields[w]) => First(view, gs)
  BY <1>1, FieldAdded
<1> HIDE DEF gs
<1>5. made' \in Nat /\ made <= made'
  BY <1>1, <1>2
<1> QED
  BY <1>2, <1>3, <1>4, <1>5, FieldsViews

LEMMA AddMsgViews ==
  ASSUME ViewInv, NEW w \in Wires, NEW i \in DOMAIN fields[w], AddMsg(w, i) PROVE ViewInv'
<1> DEFINE fs == fields[w]
           f  == [fs[i] EXCEPT !.items = fs[i].items + 1]
           gs == [fs EXCEPT ![i] = f]
<1>1. InOrder(fs, made) /\ made \in Nat
  BY DEF ViewInv
<1>2. fs \in Seq(Field) /\ Len(fs) \in Nat /\ DOMAIN fs = 1..Len(fs) /\ fs[i] \in Field
  BY <1>1, FieldTyped
<1>3. /\ UNCHANGED <<status, made, message, stale>>
      /\ fields' = [fields EXCEPT ![w] = gs]
  BY DEF AddMsg
<1>4. /\ gs \in Seq(Field) /\ Len(gs) = Len(fs)
      /\ \A j \in 1..Len(fs) : gs[j].id = fs[j].id /\ gs[j].tag = fs[j].tag
  <2>1. fs[i].items + 1 \in Nat
    <3>1. \A g \in Field : g.items + 1 \in Nat
      BY DEF Field
    <3> QED
      BY <1>2, <3>1
  <2>2. f \in Field /\ f.id = fs[i].id /\ f.tag = fs[i].tag
    BY <1>2, <2>1, FieldChanged
  <2> HIDE DEF f
  <2>3. \A j \in 1..Len(fs) : gs[j] = IF j = i THEN f ELSE fs[j]
    BY <1>2
  <2>4. gs \in Seq(Field) /\ Len(gs) = Len(fs)
    BY <1>2, <2>2, ExceptSeq
  <2> QED
    BY <2>2, <2>3, <2>4
<1> HIDE DEF gs, fs
<1>5. /\ InOrder(gs, made)
      /\ \A view : Maps(view, made) /\ NoEarlier(view, fs) => NoEarlier(view, gs)
      /\ \A view : Maps(view, made) /\ First(view, fs) => First(view, gs)
  BY <1>1, <1>4, ItemAdded
<1>6. /\ fields' = [fields EXCEPT ![w] = gs] /\ UNCHANGED <<status, message>>
      /\ made' \in Nat /\ made <= made' /\ InOrder(gs, made') /\ stale \subseteq stale'
  BY <1>1, <1>3, <1>5
<1>7. ASSUME NEW n \in Messages, Maps(message[n], made), NoEarlier(message[n], fields[w]),
             n \notin stale => First(message[n], fields[w])
      PROVE  NoEarlier(message[n], gs) /\ (n \notin stale' => First(message[n], gs))
  BY <1>3, <1>5, <1>7 DEF fs
<1> QED
  BY <1>6, <1>7, FieldsViews

(* A removal makes every view of the wire message stale. *)
LEMMA RemoveFieldViews ==
  ASSUME ViewInv, NEW m \in Messages, NEW tag \in Tags, RemoveField(m, tag) PROVE ViewInv'
<1> DEFINE w == message[m].wire
           i == message[m].index[tag]
           gs == RemoveAt(fields[w], i)
<1>1. Exists(m) /\ tag \in DOMAIN message[m].index /\ UNCHANGED <<status, made, message>>
  BY DEF RemoveField
<1>2. w \in Wires /\ i \in Nat \ {0} /\ made \in Nat /\ InOrder(fields[w], made)
  BY <1>1 DEF ViewInv, Viewed, Maps
<1>3. CASE /\ i <= Len(fields[w]) /\ fields' = [fields EXCEPT ![w] = gs]
           /\ stale' = stale \cup {n \in Messages : message[n].wire = w}
  <2>1. i \in 1..Len(fields[w])
    BY <1>2, <1>3, FieldTyped
  <2> HIDE DEF i
  <2>2. /\ InOrder(gs, made)
        /\ \A view : Maps(view, made) /\ NoEarlier(view, fields[w]) => NoEarlier(view, gs)
    BY <1>2, <2>1, FieldErased
  <2> HIDE DEF w, gs
  <2>3. \A n \in Messages : message[n].wire = w => n \in stale'
    BY <1>3
  <2>4. /\ w \in Wires /\ fields' = [fields EXCEPT ![w] = gs] /\ UNCHANGED <<status, message>>
        /\ made' \in Nat /\ made <= made' /\ InOrder(gs, made') /\ stale \subseteq stale'
    BY <1>1, <1>2, <1>3, <2>2
  <2>5. ASSUME NEW n \in Messages, message[n].wire = w, Maps(message[n], made),
               NoEarlier(message[n], fields[w])
        PROVE  NoEarlier(message[n], gs) /\ (n \notin stale' => First(message[n], gs))
    BY <2>2, <2>3, <2>5
  <2> QED
    BY <2>4, <2>5, FieldsViews
<1>4. CASE UNCHANGED <<fields, stale>>
  BY <1>1, <1>4, SilentViews
<1> QED
  BY <1>3, <1>4 DEF RemoveField

(* m maps w, or maps it again. *)
LEMMA MappedViews ==
  ASSUME ViewInv, NEW m \in Messages, NEW w \in Wires, NEW own, Alive(w),
         message' = [message EXCEPT ![m] = Remap(w, own)],
         status' \in {status, [status EXCEPT ![w] = "owned"]},
         UNCHANGED <<fields, made>>, stale' = stale \ {m}
  PROVE  ViewInv'
<1> DEFINE v == ViewOf(fields[w], w, own)
<1>1. v.wire = w /\ Maps(v, made) /\ First(v, fields[w]) /\ NoEarlier(v, fields[w])
  BY MappedFirst DEF ViewInv
<1>2. message'[m] = v /\ \A n \in Messages \ {m} : message'[n] = message[n]
  BY DEF ViewInv, Remap, ViewOf
<1> HIDE DEF v
<1>3. \A u \in Wires : /\ status'[u] = "unused" => status[u] = "unused"
                       /\ status'[u] \in {"caller", "owned"} => Alive(u)
                       /\ status'[w] # "unused"
  BY DEF ViewInv, Alive
<1>4. ASSUME NEW n \in Messages, Exists(n)' PROVE Viewed(n)'
  <2>1. CASE n = m
    BY <1>1, <1>2, <1>3, <2>1 DEF Viewed
  <2>2. CASE n # m
    <3>1. Exists(n) /\ message'[n] = message[n] /\ message[n].wire \in Wires
          /\ status[message[n].wire] # "unused" /\ made \in Nat
      BY <1>2, <1>4, <2>2 DEF ViewInv, Exists, Viewed
    <3> QED
      BY <1>3, <2>2, <3>1, Unaffected
  <2> QED
    BY <2>1, <2>2
<1> QED
  BY <1>4 DEF ViewInv

LEMMA DestroyViews == ASSUME ViewInv, NEW m \in Messages, Destroy(m) PROVE ViewInv'
<1> DEFINE w == message[m].wire
<1>1. /\ Exists(m) /\ UNCHANGED <<made, stale>> /\ message' = [message EXCEPT ![m] = NoView]
      /\ \/ UNCHANGED <<status, fields>>
         \/ status' = [status EXCEPT ![w] = "freed"] /\ fields' = [fields EXCEPT ![w] = <<>>]
  BY DEF Destroy
<1>2. w \in Wires /\ made \in Nat
  BY <1>1 DEF ViewInv, Viewed
<1> HIDE DEF w
<1>3. ASSUME NEW n \in Messages, Exists(n)' PROVE Viewed(n)'
  <2>1. n # m /\ message'[n] = message[n]
    BY <1>1, <1>3 DEF ViewInv, Exists
  <2>2. Exists(n) /\ Viewed(n)
    BY <1>3, <2>1 DEF ViewInv, Exists
  <2>3. /\ status'[message[n].wire] # "unused"
        /\ status'[message[n].wire] \in {"caller", "owned"} =>
             /\ Alive(message[n].wire)
             /\ fields'[message[n].wire] = fields[message[n].wire]
    BY <1>1, <1>2, <2>2 DEF ViewInv, Viewed, Alive
  <2> QED
    BY <1>1, <1>2, <2>1, <2>2, <2>3, Unaffected
<1>4. ASSUME NEW v \in Wires PROVE InOrder(fields'[v], made)
  <2>1. InOrder(<<>>, made)
    BY EmptySeq DEF InOrder
  <2> QED
    BY <1>1, <1>2, <2>1 DEF ViewInv
<1> QED
  BY <1>1, <1>3, <1>4 DEF ViewInv

(* The fields that factory() parses are new. *)
LEMMA ParsedInOrder ==
  ASSUME NEW fs, made \in Nat, InOrder(fs, made)
  PROVE  InOrder(Parsed(fs), made + Len(fs)) /\ made + Len(fs) \in Nat /\ made <= made + Len(fs)
<1>1. /\ fs \in Seq(Field) /\ Len(fs) \in Nat /\ DOMAIN fs = 1..Len(fs)
      /\ \A i \in 1..Len(fs) : fs[i] \in Field
  BY FieldTyped
<1>2. ASSUME NEW i \in 1..Len(fs)
      PROVE  /\ [fs[i] EXCEPT !.id = made + i] \in Field
             /\ [fs[i] EXCEPT !.id = made + i].id = made + i
  <2>1. fs[i] \in Field /\ made + i \in Nat
    BY <1>1
  <2> QED
    BY <2>1, FieldChanged
<1>3. /\ Parsed(fs) \in Seq(Field) /\ Len(Parsed(fs)) = Len(fs)
      /\ \A i \in 1..Len(fs) : Parsed(fs)[i].id = made + i
  <2> DEFINE gs == Parsed(fs)
  <2>1. gs \in [1..Len(fs) -> Field] /\ \A i \in 1..Len(fs) : gs[i].id = made + i
    BY <1>1, <1>2 DEF Parsed
  <2> HIDE DEF gs
  <2>2. gs \in Seq(Field) /\ Len(gs) = Len(fs)
    BY <1>1, <2>1, SeqDef, LenProperties
  <2> QED
    BY <2>1, <2>2 DEF gs
<1>4. InOrder(Parsed(fs), made + Len(fs))
  <2> DEFINE gs == Parsed(fs)
  <2>1. /\ \A i \in 1..Len(gs) : gs[i].id <= made + Len(fs)
        /\ \A i, j \in 1..Len(gs) : j < i => gs[j].id < gs[i].id
    <3> HIDE DEF gs
    <3> QED
      BY <1>1, <1>3 DEF gs
  <2> QED
    BY <1>3, <2>1 DEF InOrder
<1> QED
  BY <1>1, <1>4

LEMMA FactoryViews ==
  ASSUME ViewInv, NEW m \in Messages, NEW w \in Wires, NEW src \in Wires, Factory(m, w, src)
  PROVE  ViewInv'
<1> DEFINE gs == Parsed(fields[src])
           v  == ViewOf(gs, w, TRUE)
           n1 == made + Len(fields[src])
<1>1. /\ status[w] = "unused" /\ made' = n1 /\ stale' = stale \ {m}
      /\ fields' = [fields EXCEPT ![w] = gs] /\ status' = [status EXCEPT ![w] = "owned"]
      /\ message' = [message EXCEPT ![m] = Remap(w, TRUE)']
  BY DEF Factory
<1>2. /\ made \in Nat /\ status'[w] = "owned" /\ fields'[w] = gs
      /\ \A u \in Wires \ {w} : status'[u] = status[u] /\ fields'[u] = fields[u]
      /\ \A n \in Messages \ {m} : message'[n] = message[n]
  BY <1>1 DEF ViewInv
<1>3. Remap(w, TRUE)' = v
  BY <1>2 DEF Remap, ViewOf
<1>4. message'[m] = v
  BY <1>1, <1>3 DEF ViewInv
<1>5. InOrder(gs, n1) /\ n1 \in Nat /\ made <= n1
  BY <1>2, ParsedInOrder DEF ViewInv
<1> HIDE DEF gs, n1
<1>6. v.wire = w /\ Maps(v, n1) /\ First(v, gs) /\ NoEarlier(v, gs)
  BY <1>5, MappedFirst
<1> HIDE DEF v
<1>7. ASSUME NEW n \in Messages, Exists(n)' PROVE Viewed(n)'
  <2>1. CASE n = m
    <3>1. /\ message'[n] = v /\ v.wire = w /\ fields'[w] = gs /\ status'[w] = "owned"
          /\ made' = n1 /\ w \in Wires
      BY <1>1, <1>2, <1>4, <1>6, <2>1 DEF n1
    <3> QED
      BY <1>6, <3>1 DEF Viewed
  <2>2. CASE n # m
    <3>1. Exists(n) /\ message'[n] = message[n] /\ Viewed(n)
      BY <1>2, <1>7, <2>2 DEF ViewInv, Exists
    <3>2. message[n].wire \in Wires \ {w} /\ status[message[n].wire] # "unused"
      BY <1>1, <3>1 DEF Viewed
    <3> QED
      BY <1>1, <1>2, <1>5, <2>2, <3>1, <3>2, Unaffected DEF Alive
  <2> QED
    BY <2>1, <2>2
<1>8. ASSUME NEW u \in Wires PROVE InOrder(fields'[u], n1)
  BY <1>2, <1>5, Later DEF ViewInv
<1> QED
  BY <1>1, <1>2, <1>5, <1>7, <1>8 DEF ViewInv

LEMMA ViewStep == ViewInv /\ [Next]_vars => ViewInv'
<1> SUFFICES ASSUME ViewInv, [Next]_vars PROVE ViewInv'
  OBVIOUS
<1>1. ASSUME NEW m \in Messages, NEW w \in Wires, NEW own \in BOOLEAN, Construct(m, w, own)
      PROVE  ViewInv'
  BY <1>1, MappedViews DEF Construct
<1>2. ASSUME NEW m \in Messages, NEW w \in Wires, Assign(m, w) PROVE ViewInv'
  BY <1>2, MappedViews DEF Assign, Remapped
<1>3. CASE UNCHANGED vars
  BY <1>3, SilentViews DEF vars
<1> QED
  BY <1>1, <1>2, <1>3, WireViews, AddFieldViews, AddMsgViews, RemoveFieldViews, DestroyViews,
     FactoryViews DEF Next

LEMMA ViewInvariance == Spec => []ViewInv
  BY ViewInit, ViewStep, PTL DEF Spec

(* Whatever the caller adds, removes, assigns and frees, a message none of *)
(* whose fields were removed finds the first field of each tag it mapped.  *)
THEOREM FirstsFound == Spec => []FindsFirst
<1>1. ViewInv => FindsFirst
  <2> SUFFICES ASSUME ViewInv, NEW m \in Messages, Exists(m), m \notin stale,
                      Alive(message[m].wire), NEW t \in DOMAIN message[m].find
               PROVE  LET fs == fields[message[m].wire]
                          i == message[m].index[t]
                      IN /\ i \in DOMAIN fs /\ fs[i].tag = t /\ fs[i].id = message[m].find[t]
                         /\ \A j \in 1..i-1 : fs[j].tag # t
    BY DEF FindsFirst
  <2>1. /\ message[m].wire \in Wires /\ Maps(message[m], made)
        /\ First(message[m], fields[message[m].wire])
    BY DEF ViewInv, Viewed
  <2>2. InOrder(fields[message[m].wire], made)
    BY <2>1 DEF ViewInv
  <2> QED
    BY <2>1, <2>2, FieldTyped DEF Maps, First
<1> QED
  BY <1>1, ViewInvariance, PTL

(* remove_field() erases the field that was mapped, or a later one where   *)
(* the message is stale: ids grow along the fields, and removals only move *)
(* later fields forward.                                                   *)
THEOREM MappedRemoved == Spec => RemovesMapped
<1> DEFINE Removes ==
      \A m \in Messages, t \in Tags : RemoveField(m, t) /\ ~broken' =>
        LET w == message[m].wire
        IN \E erased \in Ids(fields[w]) \ Ids(fields'[w]) :
             /\ erased >= message[m].find[t]
             /\ m \notin stale => erased = message[m].find[t]
<1>1. ViewInv => Removes
  <2> SUFFICES ASSUME ViewInv, NEW m \in Messages, NEW t \in Tags, RemoveField(m, t), ~broken'
               PROVE  \E erased \in Ids(fields[message[m].wire]) \ Ids(fields'[message[m].wire]) :
                        /\ erased >= message[m].find[t]
                        /\ m \notin stale => erased = message[m].find[t]
    OBVIOUS
  <2> DEFINE w == message[m].wire
             i == message[m].index[t]
             fs == fields[w]
  <2>1. /\ Exists(m) /\ Alive(w) /\ t \in DOMAIN message[m].index
        /\ i <= Len(fs) /\ fields' = [fields EXCEPT ![w] = RemoveAt(fs, i)]
    BY DEF RemoveField
  <2>2. /\ w \in Wires /\ made \in Nat /\ InOrder(fs, made) /\ t \in DOMAIN message[m].find
        /\ i \in Nat \ {0} /\ message[m].find[t] \in Nat
        /\ message[m].find[t] <= fs[i].id
        /\ m \notin stale => fs[i].id = message[m].find[t]
    <3>1. /\ w \in Wires /\ made \in Nat /\ InOrder(fs, made) /\ Maps(message[m], made)
          /\ NoEarlier(message[m], fs)
          /\ m \notin stale => First(message[m], fs)
      BY <2>1 DEF ViewInv, Viewed
    <3>2. t \in DOMAIN message[m].find /\ i \in Nat \ {0} /\ message[m].find[t] \in Nat
      BY <2>1, <3>1 DEF Maps
    <3> HIDE DEF fs, w
    <3>3. message[m].find[t] <= fs[i].id
      BY <2>1, <3>1, <3>2 DEF NoEarlier
    <3>4. m \notin stale => fs[i].id = message[m].find[t]
      BY <3>1, <3>2 DEF First
    <3> QED
      BY <3>1, <3>2, <3>3, <3>4
  <2>3. fields'[w] = RemoveAt(fs, i)
    BY <2>1, <2>2 DEF ViewInv
  <2> HIDE DEF w, i, fs
  <2>4. i \in DOMAIN fs /\ i \in 1..Len(fs) /\ fs[i].id \in Nat
    BY <2>1, <2>2, FieldTyped
  <2>5. fs[i].id \in Ids(fs) \ Ids(fields'[w])
    BY <2>2, <2>3, <2>4, FieldErased DEF Ids
  <2>6. fs[i].id >= message[m].find[t]
    BY <2>2, <2>4
  <2>7. \E erased \in Ids(fs) \ Ids(fields'[w]) :
          erased >= message[m].find[t] /\ (m \notin stale => erased = message[m].find[t])
    BY <2>2, <2>5, <2>6
  <2> QED
    BY <2>7 DEF w, fs
<1>2. ViewInv /\ [Next]_vars => [Removes]_vars
  BY <1>1
<1> QED
  BY <1>2, ViewInvariance, PTL DEF Spec, RemovesMapped

-----------------------------------------------------------------------------
(* Induction over the natural numbers, and over the subsets of a finite    *)
(* set, as properties of sets.                                             *)
LEMMA EveryNat ==
  ASSUME NEW T, 0 \in T, \A n \in Nat : n \in T => n + 1 \in T PROVE Nat \subseteq T
<1> DEFINE Out == {n \in Nat : n \notin T}
<1>1. IsWellFoundedOn(Below, Nat)
  BY NatLessThanWellFounded DEF OpToRel, Below
<1>2. ASSUME Out # {} PROVE FALSE
  <2>1. PICK x \in Out : \A y \in Out : <<y, x>> \notin Below
    <3>1. Out \subseteq Nat
      OBVIOUS
    <3> HIDE DEF Out
    <3> QED
      BY <1>1, <1>2, <3>1, WFMin
  <2>2. x \in Nat /\ x - 1 \in Nat /\ x - 1 < x /\ x - 1 + 1 = x
    OBVIOUS
  <2>3. <<x - 1, x>> \in Below
    BY <2>2 DEF Below
  <2> QED
    BY <2>1, <2>2, <2>3
<1> QED
  BY <1>2

(* T has every subset of D that it has without any one of its elements.    *)
Inductive(D, T) == \A s \in SUBSET D : (\A x \in s : s \ {x} \in T) => s \in T

LEMMA EverySubset ==
  ASSUME NEW D, IsFiniteSet(D), NEW T, Inductive(D, T)
  PROVE  SUBSET D \subseteq T
<1> DEFINE Out == {s \in SUBSET D : s \notin T}
<1>1. IsWellFoundedOn(StrictSubsetOrdering(D), SUBSET D)
  BY FS_StrictSubsetOrderingWellFounded, FS_FiniteSubsetsOfFinite
<1>2. ASSUME Out # {} PROVE FALSE
  <2>1. PICK s \in Out : \A u \in Out : <<u, s>> \notin StrictSubsetOrdering(D)
    <3>1. Out \subseteq SUBSET D
      OBVIOUS
    <3> HIDE DEF Out
    <3> QED
      BY <1>1, <1>2, <3>1, WFMin
  <2>2. ASSUME NEW x \in s PROVE s \ {x} \in T
    <3>1. <<s \ {x}, s>> \in StrictSubsetOrdering(D)
      BY DEF StrictSubsetOrdering
    <3> QED
      BY <2>1, <3>1
  <2> QED
    BY <2>2 DEF Inductive
<1> QED
  BY <1>2

(* The total of f over a set, one element after the other.                 *)
Picked(set) == CHOOSE x \in set : TRUE
Adds(sum, f, set) ==
  sum[set] = IF set = {} THEN 0 ELSE f[Picked(set)] + sum[set \ {Picked(set)}]

LEMMA SumExists ==
  ASSUME NEW D, IsFiniteSet(D), NEW f, \A x \in D : f[x] \in Nat
  PROVE  \E sum \in [SUBSET D -> Nat] : \A set \in SUBSET D : Adds(sum, f, set)
<1> DEFINE Small(n) == {set \in SUBSET D : Cardinality(set) <= n}
           T == {n \in Nat : \E sum \in [SUBSET D -> Nat] : \A set \in Small(n) : Adds(sum, f, set)}
<1>1. \A set \in SUBSET D : IsFiniteSet(set) /\ Cardinality(set) \in Nat
  BY FS_Subset, FS_CardinalityType
<1>2. ASSUME NEW set \in SUBSET D, set # {}
      PROVE  /\ Picked(set) \in set
             /\ set \ {Picked(set)} \in SUBSET D
             /\ Cardinality(set \ {Picked(set)}) = Cardinality(set) - 1
  <2>1. Picked(set) \in set
    BY <1>2 DEF Picked
  <2> QED
    BY <1>1, <2>1, FS_RemoveElement
<1>3. 0 \in T
  <2> DEFINE sum == [set \in SUBSET D |-> 0]
  <2>1. ASSUME NEW set \in Small(0) PROVE set = {} /\ sum[set] = 0
    <3>1. Cardinality(set) = 0
      BY <1>1
    <3> QED
      BY <1>1, <3>1, FS_EmptySet
  <2>2. sum \in [SUBSET D -> Nat]
    OBVIOUS
  <2> HIDE DEF sum
  <2> QED
    BY <2>1, <2>2 DEF Adds
<1>4. ASSUME NEW n \in Nat, n \in T PROVE n + 1 \in T
  <2>1. PICK old \in [SUBSET D -> Nat] : \A set \in Small(n) : Adds(old, f, set)
    BY <1>4
  <2> DEFINE sum == [set \in SUBSET D |->
                       IF Cardinality(set) <= n THEN old[set]
                       ELSE f[Picked(set)] + old[set \ {Picked(set)}]]
  <2>2. ASSUME NEW set \in SUBSET D PROVE sum[set] \in Nat
    <3>1. CASE Cardinality(set) <= n
      BY <2>1, <3>1
    <3>2. CASE ~(Cardinality(set) <= n)
      <4>1. set # {}
        <5>1. Cardinality({}) = 0
          BY FS_EmptySet
        <5>2. 0 <= n
          OBVIOUS
        <5> QED
          BY <3>2, <5>1, <5>2
      <4>2. f[Picked(set)] \in Nat /\ old[set \ {Picked(set)}] \in Nat
        BY <1>2, <2>1, <4>1
      <4> QED
        BY <3>2, <4>2
    <3> QED
      BY <3>1, <3>2
  <2>3. ASSUME NEW set \in Small(n + 1) PROVE Adds(sum, f, set)
    <3>1. CASE set = {}
      <4>1. set \in Small(n)
        BY <3>1, FS_EmptySet
      <4>2. sum[set] = old[set] /\ Adds(old, f, set)
        BY <2>1, <4>1
      <4> HIDE DEF sum
      <4> QED
        BY <3>1, <4>2 DEF Adds
    <3>2. CASE set # {}
      <4> DEFINE rest == set \ {Picked(set)}
      <4>1. rest \in Small(n) /\ Cardinality(rest) = Cardinality(set) - 1
        BY <1>1, <1>2, <3>2
      <4>2. sum[rest] = old[rest]
        BY <4>1
      <4>3. sum[set] = f[Picked(set)] + old[rest]
        <5>1. CASE Cardinality(set) <= n
          BY <2>1, <3>2, <5>1 DEF Adds
        <5>2. CASE ~(Cardinality(set) <= n)
          BY <5>2
        <5> QED
          BY <5>1, <5>2
      <4> HIDE DEF sum
      <4> QED
        BY <3>2, <4>2, <4>3 DEF Adds
    <3> QED
      BY <3>1, <3>2
  <2>4. sum \in [SUBSET D -> Nat]
    BY <2>2
  <2> HIDE DEF sum, Small
  <2> QED
    BY <2>3, <2>4
<1>5. Cardinality(D) \in T
  <2> HIDE DEF T
  <2> QED
    BY <1>1, <1>3, <1>4, EveryNat
<1>6. \A set \in SUBSET D : set \in Small(Cardinality(D))
  BY FS_Subset
<1> HIDE DEF Small
<1> QED
  BY <1>5, <1>6

LEMMA TotalIsSum ==
  ASSUME NEW D, IsFiniteSet(D), NEW f, NEW sum \in [SUBSET D -> Nat],
         \A set \in SUBSET D : Adds(sum, f, set), NEW S \in SUBSET D
  PROVE  Total(f, S) = sum[S]
<1> DEFINE IsIter(g) == g = [set \in SUBSET S |->
                               IF set = {} THEN 0 ELSE f[Picked(set)] + g[set \ {Picked(set)}]]
           it == CHOOSE g : IsIter(g)
<1>1. IsFiniteSet(S)
  BY FS_Subset
<1>2. IsIter([set \in SUBSET S |-> sum[set]])
  <2> DEFINE g == [set \in SUBSET S |-> sum[set]]
  <2>1. ASSUME NEW set \in SUBSET S
        PROVE  g[set] = IF set = {} THEN 0 ELSE f[Picked(set)] + g[set \ {Picked(set)}]
    <3>1. set \ {Picked(set)} \in SUBSET S /\ set \in SUBSET D
      OBVIOUS
    <3>2. g[set] = sum[set] /\ g[set \ {Picked(set)}] = sum[set \ {Picked(set)}]
      BY <3>1
    <3> HIDE DEF g
    <3> QED
      BY <3>1, <3>2 DEF Adds
  <2> QED
    BY <2>1
<1>3. IsIter(it)
  BY <1>2
<1>4. Total(f, S) = it[S]
  BY DEF Total, FoldFunctionOnSet, MapThenFoldSet, Picked
<1>5. SUBSET S \subseteq {set \in SUBSET S : it[set] = sum[set]}
  <2> DEFINE T == {set \in SUBSET S : it[set] = sum[set]}
  <2>1. \A set \in SUBSET S :
          it[set] = IF set = {} THEN 0 ELSE f[Picked(set)] + it[set \ {Picked(set)}]
    BY <1>3
  <2> HIDE DEF it
  <2>2. ASSUME NEW set \in SUBSET S, \A x \in set : set \ {x} \in T PROVE set \in T
    <3>1. Adds(sum, f, set)
      OBVIOUS
    <3>2. CASE set = {}
      BY <2>1, <3>1, <3>2 DEF Adds
    <3>3. CASE set # {}
      <4>1. Picked(set) \in set
        BY <3>3 DEF Picked
      <4>2. it[set \ {Picked(set)}] = sum[set \ {Picked(set)}]
        BY <2>2, <4>1
      <4> QED
        BY <2>1, <3>1, <3>3, <4>2 DEF Adds
    <3> QED
      BY <3>2, <3>3
  <2> HIDE DEF T
  <2>3. Inductive(S, T)
    BY <2>2 DEF Inductive
  <2>4. SUBSET S \subseteq T
    BY <1>1, <2>3, EverySubset
  <2> QED
    BY <2>4 DEF T
<1> HIDE DEF it
<1> QED
  BY <1>4, <1>5

(* The total counts every element, in any order, and nothing else.         *)
LEMMA TotalSteps ==
  ASSUME NEW S, IsFiniteSet(S), NEW f, \A x \in S : f[x] \in Nat
  PROVE  /\ Total(f, S) \in Nat
         /\ S = {} => Total(f, S) = 0
         /\ \A x \in S : Total(f, S \ {x}) \in Nat /\ Total(f, S) = f[x] + Total(f, S \ {x})
<1>1. PICK sum \in [SUBSET S -> Nat] : \A set \in SUBSET S : Adds(sum, f, set)
  BY SumExists
<1>2. \A set \in SUBSET S : Total(f, set) = sum[set]
  BY <1>1, TotalIsSum
<1> DEFINE T == {set \in SUBSET S : \A x \in set : sum[set] = f[x] + sum[set \ {x}]}
<1>3. ASSUME NEW set \in SUBSET S, \A x \in set : set \ {x} \in T PROVE set \in T
  <2> SUFFICES ASSUME NEW x \in set PROVE sum[set] = f[x] + sum[set \ {x}]
    OBVIOUS
  <2> DEFINE y == Picked(set)
  <2>1. y \in set /\ sum[set] = f[y] + sum[set \ {y}]
    BY <1>1 DEF Adds, Picked
  <2> HIDE DEF y
  <2>2. CASE x = y
    BY <2>1, <2>2
  <2>3. CASE x # y
    <3>1. sum[set \ {y}] = f[x] + sum[(set \ {y}) \ {x}]
      BY <1>3, <2>1, <2>3
    <3>2. sum[set \ {x}] = f[y] + sum[(set \ {x}) \ {y}]
      BY <1>3, <2>1, <2>3
    <3>3. (set \ {y}) \ {x} = (set \ {x}) \ {y}
      OBVIOUS
    <3> DEFINE rest == sum[(set \ {x}) \ {y}]
    <3>4. f[x] \in Nat /\ f[y] \in Nat /\ rest \in Nat
      BY <1>1, <2>1
    <3>5. sum[set \ {y}] = f[x] + rest /\ sum[set \ {x}] = f[y] + rest
      BY <3>1, <3>2, <3>3
    <3> HIDE DEF rest
    <3>6. sum[set] = f[y] + (f[x] + rest)
      BY <2>1, <3>5
    <3>7. f[y] + (f[x] + rest) = f[x] + (f[y] + rest)
      BY <3>4
    <3> QED
      BY <3>5, <3>6, <3>7
  <2> QED
    BY <2>2, <2>3
<1>4. S \in T
  <2> HIDE DEF T
  <2>1. \A set \in SUBSET S : (\A x \in set : set \ {x} \in T) => set \in T
    BY <1>3
  <2>2. Inductive(S, T)
    BY <2>1 DEF Inductive
  <2>3. SUBSET S \subseteq T
    BY <2>2, EverySubset
  <2> QED
    BY <2>3
<1>5. \A x \in S : Total(f, S \ {x}) = sum[S \ {x}]
  BY <1>2
<1>6. S = {} => Total(f, S) = 0
  BY <1>1, <1>2 DEF Adds
<1> QED
  BY <1>1, <1>2, <1>4, <1>5, <1>6

LEMMA TotalSame ==
  ASSUME NEW S, IsFiniteSet(S), NEW f, NEW g, \A x \in S : f[x] \in Nat /\ g[x] = f[x]
  PROVE  Total(f, S) = Total(g, S)
<1>1. PICK sum \in [SUBSET S -> Nat] : \A set \in SUBSET S : Adds(sum, f, set)
  BY SumExists
<1>2. ASSUME NEW set \in SUBSET S PROVE Adds(sum, g, set)
  <2>1. Adds(sum, f, set) /\ (set # {} => Picked(set) \in S)
    BY <1>1 DEF Picked
  <2> QED
    BY <2>1 DEF Adds
<1>3. Total(f, S) = sum[S]
  BY <1>1, TotalIsSum
<1>4. Total(g, S) = sum[S]
  BY <1>2, TotalIsSum
<1> QED
  BY <1>3, <1>4

LEMMA TotalZero ==
  ASSUME NEW S, IsFiniteSet(S), NEW f, \A x \in S : f[x] = 0 PROVE Total(f, S) = 0
<1> DEFINE sum == [set \in SUBSET S |-> 0]
<1>1. sum \in [SUBSET S -> Nat] /\ \A set \in SUBSET S : sum[set] = 0
  OBVIOUS
<1> HIDE DEF sum
<1>2. \A set \in SUBSET S : Adds(sum, f, set)
  BY <1>1 DEF Adds, Picked
<1> QED
  BY <1>1, <1>2, TotalIsSum

(* One element more or less. *)
LEMMA TotalChanged ==
  ASSUME NEW S, IsFiniteSet(S), NEW x \in S, NEW f, NEW g,
         \A y \in S : f[y] \in Nat /\ g[y] \in Nat, \A y \in S \ {x} : g[y] = f[y]
  PROVE  Total(g, S) = Total(f, S) - f[x] + g[x]
<1>1. IsFiniteSet(S \ {x})
  BY FS_RemoveElement
<1>2. Total(f, S \ {x}) = Total(g, S \ {x})
  BY <1>1, TotalSame
<1>3. /\ Total(f, S \ {x}) \in Nat /\ Total(f, S) = f[x] + Total(f, S \ {x})
      /\ Total(g, S) = g[x] + Total(g, S \ {x})
  BY TotalSteps
<1> QED
  BY <1>2, <1>3

-----------------------------------------------------------------------------
(* The items on the heap: those of the groups that the messages mapped.    *)
(* Only the fields of group tags have items, so only they make groups.     *)
SomeField == [id : 1..MaxFields, tag : Tags, items : 0..MaxItems]
Grouped == {f \in SomeField : f.tag \notin GroupTags => f.items = 0}

Counted(view) ==
  /\ view.wire \in Wires \cup {None} /\ view.own \in BOOLEAN
  /\ DOMAIN view.find = DOMAIN view.index
  /\ DOMAIN view.groups \subseteq GroupTags /\ IsFiniteSet(DOMAIN view.groups)
  /\ \A t \in DOMAIN view.groups : view.groups[t] \in Nat

Held(views) == [m \in Messages |-> Items(views[m])]

WiresTyped ==
  /\ status \in [Wires -> {"unused", "caller", "owned", "freed"}]
  /\ fields \in [Wires -> Seq(Grouped)]
  /\ made \in 0..MaxFields

Balanced ==
  /\ message = [m \in Messages |-> message[m]] /\ \A m \in Messages : Counted(message[m])
  /\ items = Total(Held(message), Messages)

TypeInv ==
  /\ WiresTyped /\ Balanced
  /\ stale \subseteq Messages /\ broken \in BOOLEAN /\ crossed \subseteq Wires

LEMMA BoundsAreNat == MaxFields \in Nat /\ MaxItems \in Nat /\ GroupTags \subseteq Tags
  BY DeprecatedAssumption

LEMMA GroupedSeq ==
  ASSUME NEW fs \in Seq(Grouped)
  PROVE  /\ Len(fs) \in Nat /\ DOMAIN fs = 1..Len(fs)
         /\ \A i \in 1..Len(fs) : /\ fs[i] \in Grouped /\ fs[i].tag \in Tags
                                  /\ fs[i].items \in Nat
                                  /\ fs[i].tag \notin GroupTags => fs[i].items = 0
<1>1. Len(fs) \in Nat /\ DOMAIN fs = 1..Len(fs) /\ \A i \in 1..Len(fs) : fs[i] \in Grouped
  BY LenProperties, ElementOfSeq
<1>2. \A f \in Grouped : /\ f.tag \in Tags /\ f.items \in Nat
                         /\ f.tag \notin GroupTags => f.items = 0
  BY BoundsAreNat DEF Grouped, SomeField
<1> QED
  BY <1>1, <1>2

LEMMA ItemsNat == ASSUME NEW view, Counted(view) PROVE Items(view) \in Nat
  BY TotalSteps DEF Counted, Items

LEMMA NoItems == Counted(NoView) /\ Items(NoView) = 0
<1>1. DOMAIN NoView.groups = {} /\ DOMAIN NoView.find = DOMAIN NoView.index
  BY EmptySeq DEF NoView
<1>2. IsFiniteSet({})
  BY FS_EmptySet
<1>3. Counted(NoView)
  BY <1>1, <1>2 DEF Counted, NoView
<1>4. Total(NoView.groups, {}) = 0
  BY <1>2, TotalZero
<1> QED
  BY <1>1, <1>3, <1>4 DEF Items

(* remap() makes groups of group tags only, and as many items as there are *)
(* in the fields of those tags.                                            *)
LEMMA RemapCounted ==
  ASSUME NEW fs \in Seq(Grouped), NEW w \in Wires, NEW own \in BOOLEAN
  PROVE  Counted(ViewOf(fs, w, own))
<1> DEFINE view == ViewOf(fs, w, own)
           all  == [i \in DOMAIN fs |-> fs[i].items]
<1>1. /\ Len(fs) \in Nat /\ DOMAIN fs = 1..Len(fs)
      /\ \A i \in 1..Len(fs) : /\ fs[i].items \in Nat
                               /\ fs[i].tag \notin GroupTags => fs[i].items = 0
  BY GroupedSeq
<1>2. ASSUME NEW t
      PROVE  /\ IsFiniteSet(At(fs, t)) /\ At(fs, t) \subseteq 1..Len(fs)
             /\ \A i \in At(fs, t) : all[i] \in Nat /\ (t \notin GroupTags => all[i] = 0)
  <2>1. At(fs, t) \subseteq 1..Len(fs) /\ IsFiniteSet(1..Len(fs))
    BY <1>1, FS_Interval DEF At
  <2>2. IsFiniteSet(At(fs, t))
    BY <2>1, FS_Subset
  <2> QED
    BY <1>1, <2>1, <2>2 DEF At
<1>3. ASSUME NEW t
      PROVE  ItemsOf(fs, t) \in Nat /\ (t \notin GroupTags => ItemsOf(fs, t) = 0)
  <2> HIDE DEF all
  <2>1. Total(all, At(fs, t)) \in Nat
    BY <1>2, TotalSteps
  <2>2. t \notin GroupTags => Total(all, At(fs, t)) = 0
    BY <1>2, TotalZero
  <2> QED
    BY <2>1, <2>2 DEF ItemsOf, all
<1>4. IsFiniteSet(TagsOf(fs))
  <2> DEFINE f == [i \in 1..Len(fs) |-> fs[i].tag]
  <2>1. f \in Surjection(1..Len(fs), TagsOf(fs))
    BY <1>1 DEF Surjection, TagsOf
  <2> HIDE DEF f
  <2>2. IsFiniteSet(1..Len(fs))
    BY <1>1, FS_Interval
  <2> QED
    BY <2>1, <2>2, FS_Surjection
<1> HIDE DEF all
<1>5. DOMAIN view.groups \subseteq GroupTags /\ DOMAIN view.groups \subseteq TagsOf(fs)
  BY <1>3 DEF ViewOf
<1>6. IsFiniteSet(DOMAIN view.groups)
  BY <1>4, <1>5, FS_Subset
<1>7. \A t \in DOMAIN view.groups : view.groups[t] \in Nat
  BY <1>3 DEF ViewOf
<1>8. view.wire = w /\ view.own = own /\ DOMAIN view.find = DOMAIN view.index
  BY DEF ViewOf
<1> HIDE DEF view
<1>9. Counted(view)
  BY <1>5, <1>6, <1>7, <1>8 DEF Counted
<1> QED
  BY <1>9 DEF view

LEMMA ItemsCounted == Balanced => items \in Int
<1> SUFFICES ASSUME Balanced PROVE items \in Int
  OBVIOUS
<1> DEFINE old == Held(message)
<1>1. \A m \in Messages : old[m] \in Nat
  BY ItemsNat DEF Balanced, Held
<1>2. IsFiniteSet(Messages) /\ items = Total(old, Messages)
  BY DeprecatedAssumption DEF Balanced
<1> HIDE DEF old
<1>3. Total(old, Messages) \in Nat
  BY <1>1, <1>2, TotalSteps
<1> QED
  BY <1>2, <1>3

(* One message changes its view: its old items go, its new items come.     *)
LEMMA ViewChanged ==
  ASSUME Balanced, NEW m \in Messages, NEW v, Counted(v), message' = [message EXCEPT ![m] = v],
         items' = items - Items(message[m]) + Items(v)
  PROVE  Balanced'
<1>1. message'[m] = v /\ \A n \in Messages \ {m} : message'[n] = message[n]
  BY DEF Balanced
<1>2. \A n \in Messages : Counted(message[n]) /\ Counted(message'[n])
  BY <1>1 DEF Balanced
<1> DEFINE old == Held(message)
           new == Held(message')
<1>3. /\ \A n \in Messages : old[n] \in Nat /\ new[n] \in Nat
      /\ \A n \in Messages \ {m} : new[n] = old[n]
      /\ old[m] = Items(message[m]) /\ new[m] = Items(v)
  BY <1>1, <1>2, ItemsNat DEF Held
<1>4. IsFiniteSet(Messages)
  BY DeprecatedAssumption
<1> HIDE DEF old, new
<1>5. Total(new, Messages) = Total(old, Messages) - old[m] + new[m]
  BY <1>3, <1>4, TotalChanged
<1>6. items' = Total(new, Messages)
  BY <1>3, <1>5 DEF Balanced, old
<1>7. message' = [n \in Messages |-> message'[n]]
  BY DEF Balanced
<1> QED
  BY <1>2, <1>6, <1>7 DEF Balanced, new

LEMMA TypeInit == Init => TypeInv
<1> SUFFICES ASSUME Init PROVE TypeInv
  OBVIOUS
<1>1. WiresTyped
  BY EmptySeq, BoundsAreNat DEF Init, WiresTyped
<1>2. /\ message = [m \in Messages |-> NoView]
      /\ \A m \in Messages : Counted(message[m]) /\ Items(message[m]) = 0
  BY NoItems DEF Init
<1>3. Total(Held(message), Messages) = 0
  <2> DEFINE old == Held(message)
  <2>1. \A m \in Messages : old[m] = 0
    BY <1>2 DEF Held
  <2>2. IsFiniteSet(Messages)
    BY DeprecatedAssumption
  <2> HIDE DEF old
  <2>3. Total(old, Messages) = 0
    BY <2>1, <2>2, TotalZero
  <2> QED
    BY <2>3 DEF old
<1> QED
  BY <1>1, <1>2, <1>3 DEF TypeInv, Balanced, Init

LEMMA BalanceKept == ASSUME Balanced, UNCHANGED <<message, items>> PROVE Balanced'
  BY DEF Balanced

(* The caller's steps make, fill and free wire messages, never items of a  *)
(* message.                                                                *)
LEMMA CallerTyped ==
  ASSUME TypeInv, NEW w \in Wires,
         \/ NewWire(w) \/ FreeWire(w)
         \/ \E tag \in Tags : AddField(w, tag)
         \/ \E i \in DOMAIN fields[w] : AddMsg(w, i)
  PROVE  TypeInv'
<1>1. UNCHANGED <<message, items, stale, broken>>
  BY DEF NewWire, FreeWire, AddField, AddMsg
<1>2. WiresTyped'
  <2>1. CASE NewWire(w) \/ FreeWire(w)
    <3>1. <<>> \in Seq(Grouped)
      BY EmptySeq
    <3> QED
      BY <2>1, <3>1 DEF NewWire, FreeWire, TypeInv, WiresTyped
  <2>2. ASSUME NEW tag \in Tags, AddField(w, tag) PROVE WiresTyped'
    <3> DEFINE f  == [id |-> made + 1, tag |-> tag, items |-> 0]
               gs == Append(fields[w], f)
    <3>1. made + 1 \in 1..MaxFields /\ 0 \in 0..MaxItems
      BY <2>2, BoundsAreNat DEF AddField, TypeInv, WiresTyped
    <3>2. f \in Grouped
      BY <3>1 DEF Grouped, SomeField
    <3>3. fields' = [fields EXCEPT ![w] = gs] /\ made' = made + 1 /\ status' = status
      BY <2>2 DEF AddField
    <3>4. fields[w] \in Seq(Grouped)
      BY DEF TypeInv, WiresTyped
    <3> HIDE DEF f
    <3>5. gs \in Seq(Grouped)
      BY <3>2, <3>4, AppendProperties
    <3> HIDE DEF gs
    <3> QED
      BY <3>1, <3>3, <3>5, BoundsAreNat DEF TypeInv, WiresTyped
  <2>3. ASSUME NEW i \in DOMAIN fields[w], AddMsg(w, i) PROVE WiresTyped'
    <3> DEFINE fs == fields[w]
               f  == [fs[i] EXCEPT !.items = fs[i].items + 1]
               gs == [fs EXCEPT ![i] = f]
    <3>1. fs \in Seq(Grouped)
      BY DEF TypeInv, WiresTyped
    <3>2. i \in 1..Len(fs) /\ fs[i] \in Grouped
      BY <3>1, GroupedSeq
    <3>3. /\ fields' = [fields EXCEPT ![w] = gs] /\ UNCHANGED <<made, status>>
          /\ fs[i].tag \in GroupTags /\ fs[i].items < MaxItems
      BY <2>3 DEF AddMsg
    <3>4. f \in Grouped
      <4>1. \A g \in Grouped : g.tag \in GroupTags /\ g.items < MaxItems
                               => [g EXCEPT !.items = g.items + 1] \in Grouped
        BY BoundsAreNat DEF Grouped, SomeField
      <4> QED
        BY <3>2, <3>3, <4>1
    <3> HIDE DEF f
    <3>5. gs \in Seq(Grouped)
      BY <3>1, <3>2, <3>4, ExceptSeq
    <3> HIDE DEF gs, fs
    <3> QED
      BY <3>3, <3>5 DEF TypeInv, WiresTyped
  <2> QED
    BY <2>1, <2>2, <2>3
<1>3. crossed' \subseteq Wires
  BY DEF NewWire, FreeWire, AddField, AddMsg, TypeInv
<1> QED
  BY <1>3, <1>1, <1>2, BalanceKept DEF TypeInv

(* A new message brings the items that it mapped.                          *)
LEMMA ConstructTyped ==
  ASSUME TypeInv, NEW m \in Messages, NEW w \in Wires, NEW own \in BOOLEAN, Construct(m, w, own)
  PROVE  TypeInv'
<1> DEFINE v == ViewOf(fields[w], w, own)
<1>1. Remap(w, own) = v
  BY DEF Remap, ViewOf
<1>2. /\ message[m] = NoView /\ message' = [message EXCEPT ![m] = v] /\ items' = items + Items(v)
      /\ status' = IF own THEN [status EXCEPT ![w] = "owned"] ELSE status
      /\ UNCHANGED <<fields, made, broken>> /\ stale' = stale \ {m}
  BY <1>1 DEF Construct, Exists
<1>3. fields[w] \in Seq(Grouped)
  BY DEF TypeInv, WiresTyped
<1>4. Counted(v)
  BY <1>3, RemapCounted
<1> HIDE DEF v
<1>5. items' = items - Items(message[m]) + Items(v)
  <2>1. items \in Int /\ Items(v) \in Nat
    BY <1>4, ItemsNat, ItemsCounted DEF TypeInv
  <2> QED
    BY <1>2, <2>1, NoItems
<1>6. Balanced'
  BY <1>2, <1>4, <1>5, ViewChanged DEF TypeInv
<1>7. WiresTyped'
  BY <1>2 DEF TypeInv, WiresTyped
<1>11. crossed' \subseteq Wires
  BY DEF Construct, TypeInv
<1> QED
  BY <1>11, <1>2, <1>6, <1>7 DEF TypeInv

LEMMA AssignTyped ==
  ASSUME TypeInv, ViewInv, NEW m \in Messages, NEW w \in Wires, Assign(m, w) PROVE TypeInv'
<1> DEFINE v == ViewOf(fields[w], w, message[m].own)
<1>1. Remapped(m, w) = v /\ Items(Remap(w, FALSE)) = Items(v)
  BY DEF Remapped, Remap, ViewOf, Items
<1>2. /\ message' = [message EXCEPT ![m] = v]
      /\ items' = items - Items(message[m]) + Items(v)
      /\ UNCHANGED <<status, fields, made, broken>> /\ stale' = stale \ {m}
  BY <1>1 DEF Assign, Deleted
<1>3. fields[w] \in Seq(Grouped) /\ message[m].own \in BOOLEAN
  BY DEF TypeInv, WiresTyped, Balanced, Counted
<1>4. Counted(v)
  BY <1>3, RemapCounted
<1> HIDE DEF v
<1>5. Balanced'
  BY <1>2, <1>4, ViewChanged DEF TypeInv
<1>6. WiresTyped'
  BY <1>2 DEF TypeInv, WiresTyped
<1>11. crossed' \subseteq Wires
  <2>1. message[m].wire \in Wires
    BY DEF Assign, ViewInv, Viewed, Maps
  <2> QED
    BY <2>1 DEF Assign, TypeInv
<1> QED
  BY <1>11, <1>2, <1>5, <1>6 DEF TypeInv

(* The destructor frees the items of its message, no others.               *)
LEMMA DestroyTyped == ASSUME TypeInv, NEW m \in Messages, Destroy(m) PROVE TypeInv'
<1>1. /\ message' = [message EXCEPT ![m] = NoView] /\ items' = items - Items(message[m])
      /\ UNCHANGED <<made, stale>>
      /\ \/ UNCHANGED <<status, fields, broken>>
         \/ /\ status' = [status EXCEPT ![message[m].wire] = "freed"]
            /\ fields' = [fields EXCEPT ![message[m].wire] = <<>>]
            /\ broken' = ~Alive(message[m].wire)
  BY DEF Destroy
<1>2. items' = items - Items(message[m]) + Items(NoView)
  <2>1. items \in Int /\ Items(message[m]) \in Nat
    BY ItemsNat, ItemsCounted DEF TypeInv, Balanced
  <2> QED
    BY <1>1, <2>1, NoItems
<1>3. Balanced'
  BY <1>1, <1>2, NoItems, ViewChanged DEF TypeInv
<1>4. WiresTyped'
  <2>1. <<>> \in Seq(Grouped)
    BY EmptySeq
  <2> QED
    BY <1>1, <2>1 DEF TypeInv, WiresTyped
<1>5. broken' \in BOOLEAN
  BY <1>1 DEF TypeInv, Alive
<1>11. crossed' \subseteq Wires
  BY DEF Destroy, TypeInv
<1> QED
  BY <1>11, <1>1, <1>3, <1>4, <1>5 DEF TypeInv

(* factory() parses a copy of the fields, with as many items.              *)
LEMMA FactoryTyped ==
  ASSUME TypeInv, NEW m \in Messages, NEW w \in Wires, NEW src \in Wires, Factory(m, w, src)
  PROVE  TypeInv'
<1> DEFINE fs == fields[src]
           gs == Parsed(fs)
           v  == ViewOf(gs, w, TRUE)
<1>1. /\ message[m] = NoView /\ made + Len(fs) <= MaxFields /\ made' = made + Len(fs)
      /\ fields' = [fields EXCEPT ![w] = gs] /\ status' = [status EXCEPT ![w] = "owned"]
      /\ message' = [message EXCEPT ![m] = Remap(w, TRUE)'] /\ items' = items + Items(message'[m])
      /\ stale' = stale \ {m} /\ broken' = broken
  BY DEF Factory, Exists
<1>2. fs \in Seq(Grouped) /\ made \in Nat /\ fields'[w] = gs
  BY <1>1, BoundsAreNat DEF TypeInv, WiresTyped
<1>3. Remap(w, TRUE)' = v
  BY <1>2 DEF Remap, ViewOf
<1>4. /\ Len(fs) \in Nat /\ DOMAIN fs = 1..Len(fs) /\ \A i \in 1..Len(fs) : fs[i] \in Grouped
  BY <1>2, GroupedSeq
<1>5. gs \in Seq(Grouped)
  <2>1. ASSUME NEW i \in 1..Len(fs) PROVE [fs[i] EXCEPT !.id = made + i] \in Grouped
    <3>1. made + i \in 1..MaxFields
      BY <1>1, <1>2, <1>4, BoundsAreNat
    <3>2. \A f \in Grouped, n \in 1..MaxFields : [f EXCEPT !.id = n] \in Grouped
      BY DEF Grouped, SomeField
    <3> QED
      BY <1>4, <3>1, <3>2
  <2>2. gs \in [1..Len(fs) -> Grouped]
    BY <1>4, <2>1 DEF Parsed
  <2> HIDE DEF gs
  <2> QED
    BY <1>4, <2>2, SeqDef
<1>6. message' = [message EXCEPT ![m] = v] /\ items' = items + Items(v)
  BY <1>1, <1>3 DEF TypeInv, Balanced
<1> HIDE DEF gs
<1>7. Counted(v)
  BY <1>5, RemapCounted
<1>8. WiresTyped'
  <2>1. made' \in 0..MaxFields
    BY <1>1, <1>2, <1>4, BoundsAreNat
  <2> QED
    BY <1>1, <1>5, <2>1 DEF TypeInv, WiresTyped
<1> HIDE DEF v
<1>9. items' = items - Items(message[m]) + Items(v)
  <2>1. items \in Int /\ Items(v) \in Nat
    BY <1>7, ItemsNat, ItemsCounted DEF TypeInv
  <2>2. items' = items + Items(v) /\ Items(message[m]) = 0
    BY <1>1, <1>6, NoItems
  <2> QED
    BY <2>1, <2>2
<1>10. Balanced'
  BY <1>6, <1>7, <1>9, ViewChanged DEF TypeInv
<1>11. crossed' \subseteq Wires
  BY DEF Factory, TypeInv
<1> QED
  BY <1>11, <1>1, <1>8, <1>10 DEF TypeInv

LEMMA RemoveFieldTyped ==
  ASSUME TypeInv, ViewInv, NEW m \in Messages, NEW tag \in Tags, RemoveField(m, tag)
  PROVE  TypeInv'
<1> DEFINE w == message[m].wire
           i == message[m].index[tag]
           gs == RemoveAt(fields[w], i)
<1>1. /\ Exists(m) /\ tag \in DOMAIN message[m].index /\ UNCHANGED <<status, made, message, items>>
      /\ \/ /\ i <= Len(fields[w]) /\ fields' = [fields EXCEPT ![w] = gs]
            /\ stale' = stale \cup {n \in Messages : message[n].wire = w} /\ broken' = broken
         \/ broken' = TRUE /\ UNCHANGED <<fields, stale>>
  BY DEF RemoveField
<1>2. w \in Wires /\ i \in Nat \ {0}
  BY <1>1 DEF ViewInv, Viewed, Maps
<1> HIDE DEF w, i
<1>3. fields[w] \in Seq(Grouped) /\ Len(fields[w]) \in Nat
  BY <1>2, GroupedSeq DEF TypeInv, WiresTyped
<1>4. i <= Len(fields[w]) => gs \in Seq(Grouped)
  <2>1. i <= Len(fields[w]) => i \in 1..Len(fields[w])
    BY <1>2, <1>3
  <2> QED
    BY <1>3, <2>1, Erased
<1> HIDE DEF gs
<1>5. WiresTyped'
  BY <1>1, <1>2, <1>4 DEF TypeInv, WiresTyped
<1>6. Balanced'
  BY <1>1, BalanceKept DEF TypeInv
<1>7. stale' \subseteq Messages /\ broken' \in BOOLEAN
  BY <1>1 DEF TypeInv
<1>11. crossed' \subseteq Wires
  BY DEF RemoveField, TypeInv
<1> QED
  BY <1>11, <1>5, <1>6, <1>7 DEF TypeInv

LEMMA TypeStep == TypeInv /\ ViewInv /\ [Next]_vars => TypeInv'
<1> SUFFICES ASSUME TypeInv, ViewInv, [Next]_vars PROVE TypeInv'
  OBVIOUS
<1>1. CASE UNCHANGED vars
  BY <1>1, BalanceKept DEF vars, TypeInv, WiresTyped
<1> QED
  BY <1>1, CallerTyped, ConstructTyped, AssignTyped, DestroyTyped, FactoryTyped, RemoveFieldTyped
     DEF Next

(* Every item message on the heap is in the groups of one message: remap() *)
(* makes it, and operator= or the destructor of that message frees it.     *)
THEOREM DeprecatedTyped == Spec => []TypeOK
<1>1. TypeInv => TypeOK
  <2> SUFFICES ASSUME TypeInv PROVE TypeOK
    OBVIOUS
  <2>1. Seq(Grouped) \subseteq Seq(SomeField)
    <3>1. \A fs \in Seq(Grouped) : fs \in [1..Len(fs) -> SomeField] /\ Len(fs) \in Nat
      <4>1. \A fs \in Seq(Grouped) : fs \in [1..Len(fs) -> Grouped] /\ Len(fs) \in Nat
        BY LenProperties
      <4>2. Grouped \subseteq SomeField
        BY DEF Grouped
      <4> QED
        BY <4>1, <4>2
    <3> QED
      BY <3>1, SeqDef
  <2>2. fields \in [Wires -> Seq([id : 1..MaxFields, tag : Tags, items : 0..MaxItems])]
    BY <2>1 DEF TypeInv, WiresTyped, SomeField
  <2>3. items = Total([m \in Messages |-> Items(message[m])], Messages)
    BY DEF TypeInv, Balanced, Held
  <2> QED
    BY <2>2, <2>3 DEF TypeInv, WiresTyped, Balanced, Counted, TypeOK
<1> QED
  BY <1>1, TypeInit, TypeStep, ViewInvariance, PTL DEF Spec
=============================================================================
