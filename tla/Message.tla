------------------------------ MODULE Message ------------------------------
(***************************************************************************)
(* Who owns the memory of a message (ufemessage.hpp).  A builder or a      *)
(* UFEMessage is a WireMessageWithArena: a wire message, by raw pointer,   *)
(* and the arena that frees it, by a shared_ptr that is only ever moved.   *)
(* A move empties the arena pointer and leaves the raw one.                *)
(*                                                                         *)
(* A wire message is the sequence of its fields, a field is its tag and,   *)
(* for a group, its items, which are wire messages too.  Abstracted: the   *)
(* header and the values.  An arena has the number of the wire message it  *)
(* was made for.  What follows the use of freed memory is undefined:       *)
(* actions are taken on live memory, and the invariants say when it is     *)
(* live.  External: protobuf, which allocates in the arena it is given, or *)
(* on the heap without one.                                                *)
(***************************************************************************)
EXTENDS Naturals, FiniteSets, SequencesExt

CONSTANTS Handles,   \* the builders and messages an application can hold
          Tags, GroupTags,
          None,      \* no pointer
          Heap,      \* allocated outside every arena
          MaxWires,  \* bound: wire messages ever allocated
          LastCreate, \* bound: the last of them made by a Builder()
          MaxFields  \* bound: fields there are when one is added

Wires == 1..MaxWires

ASSUME MessageAssumption ==
  /\ GroupTags \subseteq Tags
  /\ MaxWires \in Nat /\ LastCreate \in Nat /\ MaxFields \in Nat
  /\ None \notin Wires /\ Heap \notin Wires /\ None # Heap /\ None \notin Seq(Wires)

VARIABLES
  kind,    \* what a handle is: "none", "builder" or "message"
  wire,    \* its _wmwa._wm
  arena,   \* its _wmwa._arena
  view,    \* _fields and _groups of a message and of the messages in its groups
  home,    \* where each wire message lives: an arena, Heap, or None: freed
  fields,  \* and its fields
  made,    \* number of wire messages allocated
  copies   \* the wire messages clone() made

handleVars == <<kind, wire, arena, view>>
memoryVars == <<home, fields, made, copies>>
vars == <<handleVars, memoryVars>>

NoMap == [field |-> [t \in Tags |-> 0], group |-> [t \in Tags |-> None]]
NoView == <<>>

(* Every variable has its type; what is not allocated has no memory. *)
TypeOK ==
  /\ kind \in [Handles -> {"none", "builder", "message"}]
  /\ wire \in [Handles -> Wires \cup {None}]
  /\ arena \in [Handles -> Wires \cup {None}]
  /\ \A h \in Handles : \A w \in DOMAIN view[h] :
        w \in Wires /\ view[h][w].field \in [Tags -> 0..MaxFields]
  /\ home \in [Wires -> Wires \cup {None, Heap}]
  /\ DOMAIN fields = Wires
  /\ \A w \in Wires : \A i \in DOMAIN fields[w] :
        fields[w][i].tag \in Tags /\ ToSet(fields[w][i].items) \subseteq Wires
  /\ made \in 0..MaxWires
  /\ copies \subseteq Wires
  /\ \A w \in Wires : w > made => home[w] = None

Init ==
  /\ kind = [h \in Handles |-> "none"]
  /\ wire = [h \in Handles |-> None]
  /\ arena = [h \in Handles |-> None]
  /\ view = [h \in Handles |-> NoView]
  /\ home = [w \in Wires |-> None]
  /\ fields = [w \in Wires |-> <<>>]
  /\ made = 0
  /\ copies = {}

Live(w) == w \in Wires /\ home[w] # None
Usable(h, k) == kind[h] = k /\ Live(wire[h])

(* A handle comes to be. *)
Hold(h, k, w, a, v) ==
  /\ kind[h] = "none"
  /\ kind' = [kind EXCEPT ![h] = k]
  /\ wire' = [wire EXCEPT ![h] = w]
  /\ arena' = [arena EXCEPT ![h] = a]
  /\ view' = [view EXCEPT ![h] = v]

(* n more wire messages in a. *)
AllocateBehind(n, a) ==
  /\ n \in 0 .. MaxWires - made - 1
  /\ made' = made + n
  /\ home' = [w \in Wires |-> IF w \in made + 1 .. made + n + 1 THEN a ELSE home[w]]
Allocate(n, a) ==
  /\ n \in 0 .. MaxWires - made
  /\ made' = made + n
  /\ home' = [w \in Wires |-> IF w \in made + 1 .. made + n THEN a ELSE home[w]]

-----------------------------------------------------------------------------
(* The wire messages in w: itself and what is in the items of its groups.  *)
ItemsIn(fs) == UNION {ToSet(fs[i].items) : i \in DOMAIN fs}
Closed(ws, store) == \A v \in ws : ItemsIn(store[v]) \subseteq ws
Inside(w, store) ==
  {v \in Wires : \A ws \in SUBSET Wires : w \in ws /\ Closed(ws, store) => v \in ws}

(* remap_field(): a scalar field is found under its tag, the last of that  *)
(* tag in place of the ones before; a group's items become messages of     *)
(* their own without an arena, after those of a group of the same tag.     *)
FirstWins(m, t, i) == IF m.field[t] = 0 THEN [m EXCEPT !.field[t] = i] ELSE m
MapField(m, t, i) == [m EXCEPT !.field[t] = i]
MapGroup(m, t, items) == [m EXCEPT !.group[t] = (IF @ = None THEN <<>> ELSE @) \o items]

MapNext(m, f, i) == IF f.tag \in GroupTags THEN MapGroup(m, f.tag, f.items)
                    ELSE MapField(m, f.tag, i)

(* remap_wire_message() of w, and of the messages in its groups, in a      *)
(* memory of contents store.                                               *)
MapOf(fs) ==
  LET upTo[i \in 0..Len(fs)] == IF i = 0 THEN NoMap ELSE MapNext(upTo[i-1], fs[i], i)
  IN  upTo[Len(fs)]
Remap(w, store) == [v \in Inside(w, store) |-> MapOf(store[v])]

-----------------------------------------------------------------------------
(* Builder(): an arena of its own and an empty wire message in it. *)
Create(b) ==
  /\ made < LastCreate
  /\ Allocate(1, made + 1)
  /\ Hold(b, "builder", made + 1, made + 1, NoView)
  /\ UNCHANGED <<fields, copies>>

HasRoom ==
  Cardinality({p \in Wires \X (1..MaxFields) : p[2] \in DOMAIN fields[p[1]]}) < MaxFields
AddCommon(w, t, items) ==
  fields' = [fields EXCEPT ![w] = Append(@, [tag |-> t, items |-> items])]

(* add_field(): one more field, whether or not the tag is there already. *)
AddField(b, t) ==
  /\ Usable(b, "builder") /\ HasRoom /\ t \notin GroupTags
  /\ AddCommon(wire[b], t, <<>>)
  /\ UNCHANGED <<handleVars, home, made, copies>>

(* add_group(): a field whose n items the callback adds, in the memory of  *)
(* the message the field is in.                                            *)
AddGroup(b, t, n) ==
  /\ Usable(b, "builder") /\ HasRoom /\ t \in GroupTags
  /\ Allocate(n, home[wire[b]])
  /\ AddCommon(wire[b], t, [i \in 1..n |-> made + i])
  /\ UNCHANGED <<handleVars, copies>>

(* add_group_item() on the group add_group() left in its argument: one     *)
(* more item, and a builder for it that has no arena.                      *)
AddGroupItem(w, i, b) ==
  /\ Live(w) /\ i \in DOMAIN fields[w] /\ fields[w][i].tag \in GroupTags
  /\ Allocate(1, home[w])
  /\ fields' = [fields EXCEPT ![w][i].items = Append(@, made + 1)]
  /\ Hold(b, "builder", made + 1, None, NoView)
  /\ UNCHANGED copies

(* The move of a WireMessageWithArena: h takes the pointers of g, and g    *)
(* keeps the raw one.                                                      *)
ArenaShared(g) == arena[g]
ArenaLeft(g) == None
Move(g, h, k, v) ==
  /\ kind[h] = "none"
  /\ kind' = [kind EXCEPT ![h] = k]
  /\ wire' = [wire EXCEPT ![h] = wire[g]]
  /\ arena' = [arena EXCEPT ![h] = arena[g], ![g] = ArenaLeft(g)]
  /\ view' = [view EXCEPT ![h] = v]

(* Builder(Builder&&) *)
MoveBuilder(b, c) ==
  /\ kind[b] = "builder"
  /\ Move(b, c, "builder", NoView)
  /\ UNCHANGED memoryVars

(* build(): the wire message is mapped as it is now. *)
Build(b, m) ==
  /\ Usable(b, "builder")
  /\ Move(b, m, "message", Remap(wire[b], fields))
  /\ UNCHANGED memoryVars

(* new_builder(): the message is left with its map and no arena. *)
NewBuilder(m, b) ==
  /\ kind[m] = "message"
  /\ Move(m, b, "builder", NoView)
  /\ UNCHANGED memoryVars

(* The application takes a message out of a group of m.  It is the same    *)
(* object as in the group, kept alive by another shared_ptr.               *)
TakeItem(m, t, i, h) ==
  /\ kind[m] = "message"
  /\ LET items == view[m][wire[m]].group[t]
     IN items # None /\ i \in DOMAIN items /\ Hold(h, "message", items[i], None, view[m])
  /\ UNCHANGED memoryVars

(* clone(): a new arena for the new message, but the copy, n messages with *)
(* those in its groups, is allocated where the original's arena pointer    *)
(* says: in the original's arena or, if it is null, on the heap.  The      *)
(* copies keep the order of their originals, the message's own the first.  *)
CopyHome(m) == IF arena[m] = None THEN Heap ELSE arena[m]
Clone(m, c, n) ==
  LET inside == Inside(wire[m], fields)
      Copy(w) == made + Cardinality({v \in inside : v <= w})
      Copied(fs) == [i \in DOMAIN fs |-> [fs[i] EXCEPT !.items = [k \in DOMAIN @ |-> Copy(@[k])]]]
      store == [w \in Wires |-> IF \E v \in inside : Copy(v) = w
                                THEN Copied(fields[CHOOSE v \in inside : Copy(v) = w])
                                ELSE fields[w]]
  IN  /\ Usable(m, "message") /\ kind[c] = "none" /\ n = Cardinality(inside)
      /\ Allocate(n, CopyHome(m))
      /\ fields' = store
      /\ copies' = copies \cup {made + 1}
      /\ Hold(c, "message", made + 1, made + 1, Remap(made + 1, store))

(* A handle is destroyed, and its arena with everything in it. *)
DestroyLeaks(h) ==
  /\ kind[h] # "none"
  /\ kind' = [kind EXCEPT ![h] = "none"]
  /\ wire' = [wire EXCEPT ![h] = None]
  /\ arena' = [arena EXCEPT ![h] = None]
  /\ view' = [view EXCEPT ![h] = NoView]
  /\ UNCHANGED memoryVars
Destroy(h) ==
  /\ kind[h] # "none"
  /\ kind' = [kind EXCEPT ![h] = "none"]
  /\ wire' = [wire EXCEPT ![h] = None]
  /\ arena' = [arena EXCEPT ![h] = None]
  /\ view' = [view EXCEPT ![h] = NoView]
  /\ home' = [w \in Wires |-> IF home[w] = arena[h] THEN None ELSE home[w]]
  /\ fields' = [w \in Wires |-> IF home[w] = arena[h] THEN <<>> ELSE fields[w]]
  /\ UNCHANGED <<made, copies>>

(* The application is done. *)
Over == (\A h \in Handles : kind[h] = "none") /\ UNCHANGED vars

Next ==
  \/ Over
  \/ \E h \in Handles :
      \/ Create(h) \/ Destroy(h)
      \/ \E t \in Tags : AddField(h, t) \/ \E n \in 0..MaxFields : AddGroup(h, t, n)
      \/ \E w \in Wires, i \in 1..MaxFields : AddGroupItem(w, i, h)
      \/ \E g \in Handles : \/ MoveBuilder(g, h) \/ Build(g, h) \/ NewBuilder(g, h)
                            \/ \E n \in 1..MaxWires : Clone(g, h, n)
                            \/ \E t \in GroupTags, i \in Wires : TakeItem(g, t, i, h)

Spec == Init /\ [][Next]_vars

-----------------------------------------------------------------------------
(* Memory is owned: every arena in which a message lives has one handle    *)
(* that will free it, neither none, which would leak it, nor two, which    *)
(* would free it twice.                                                    *)
ArenaOwned ==
  \A w \in Wires : home[w] \in Wires => \E h \in Handles :
     arena[h] = home[w] /\ \A g \in Handles : arena[g] = home[w] => g = h

(* A handle that owns an arena has a live message, through every sequence  *)
(* of moves, and so is all that is in its groups and in its map, unless    *)
(* clone() made the message.                                               *)
OwnerUsable ==
  \A h \in Handles : arena[h] # None /\ wire[h] \notin copies =>
    /\ Live(wire[h])
    /\ \A v \in Inside(wire[h], fields) \cup DOMAIN view[h] : Live(v)

(* A handle that owns an arena has a live message, copies included: "use   *)
(* msg->clone() to create a message copy".                                 *)
CloneUsable == \A h \in Handles : arena[h] # None => Live(wire[h])

(* find_field() and find_group() on a message with the maps m. *)
FindField(m, t) == m.field[t]
FindGroup(m, t) == m.group[t]

(* A message that is built or cloned, and every message in its groups,     *)
(* finds under a tag the last field of that tag, and in a group the items  *)
(* of all its fields, in their order.                                      *)
LastOf(fs, t) == IF \E i \in DOMAIN fs : fs[i].tag = t
                 THEN CHOOSE i \in DOMAIN fs :
                        fs[i].tag = t /\ \A j \in DOMAIN fs : fs[j].tag = t => j <= i
                 ELSE 0
ItemsUnder(f, t) == IF f.tag = t THEN f.items ELSE <<>>
Finds(m, fs) ==
  /\ \A t \in Tags \ GroupTags : FindField(m, t) = LastOf(fs, t)
  /\ \A t \in GroupTags :
       FindGroup(m, t) = IF \E i \in DOMAIN fs : fs[i].tag = t
                         THEN FlattenSeq([i \in DOMAIN fs |-> ItemsUnder(fs[i], t)])
                         ELSE None
FindsAll(v, w) ==
  /\ w \in DOMAIN v
  /\ \A u \in DOMAIN v : Finds(v[u], fields[u]) /\ ItemsIn(fields[u]) \subseteq DOMAIN v
MessageFinds ==
  [][\A h \in Handles : kind[h] = "none" /\ kind'[h] = "message" /\ arena'[h] # None
        => FindsAll(view[h], wire[h])']_vars
=============================================================================
