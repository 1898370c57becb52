----------------------------- MODULE Deprecated -----------------------------
(***************************************************************************)
(* The deprecated message API: a UFEMessage is a view of a WireMessage     *)
(* that the caller, or the message, owns by a raw pointer; it maps tags to *)
(* fields, positions and group items once, and the caller goes on editing  *)
(* the wire message through free functions (deprecated/ufeapi.hpp).        *)
(*                                                                         *)
(* A field is an identity, in the order of creation, its tag and the       *)
(* number of its group items.  _fields and _nf_fields are one map: the tag *)
(* alone decides between them.                                             *)
(***************************************************************************)
EXTENDS Naturals, Sequences, FiniteSetsExt, SequencesExt

CONSTANTS Messages, Wires, Tags,
          GroupTags,      \* the tags of fields of type ft_msg
          None,
          MaxFields,      \* bound: fields ever made
          MaxItems        \* bound: items in a field

ASSUME DeprecatedAssumption ==
  /\ GroupTags \subseteq Tags /\ None \notin Messages \cup Wires
  /\ {MaxFields, MaxItems} \subseteq Nat
  /\ IsFiniteSet(Messages)

VARIABLES
  status,   \* of each wire message: "unused", "caller", "owned" (by a message), "freed"
  fields,   \* its fields
  made,     \* number of fields made so far
  message,  \* the UFEMessages
  items,    \* number of group item messages on the heap
  stale,    \* the messages whose wire message lost a field since they mapped it
  broken,   \* has the program freed twice or erased past the end?
  crossed   \* history: the wire messages that an owner was assigned from or to

vars == <<status, fields, made, message, items, stale, broken, crossed>>

Alive(w) == status[w] \in {"caller", "owned"}
NoView == [wire |-> None, own |-> FALSE, find |-> <<>>, index |-> <<>>, groups |-> <<>>]
Exists(m) == message[m] # NoView

Init ==
  /\ status = [w \in Wires |-> "unused"]
  /\ fields = [w \in Wires |-> <<>>]
  /\ made = 0
  /\ message = [m \in Messages |-> NoView]
  /\ items = 0
  /\ stale = {}
  /\ broken = FALSE
  /\ crossed = {}

-----------------------------------------------------------------------------
(* The caller's wire message: new, add_field(), add_msg(), delete. *)
NewWire(w) ==
  /\ status[w] = "unused"
  /\ status' = [status EXCEPT ![w] = "caller"]
  /\ UNCHANGED <<fields, made, message, items, stale, broken, crossed>>

AddField(w, tag) ==
  /\ Alive(w) /\ made < MaxFields
  /\ made' = made + 1
  /\ fields' = [fields EXCEPT ![w] = Append(@, [id |-> made + 1, tag |-> tag, items |-> 0])]
  /\ UNCHANGED <<status, message, items, stale, broken, crossed>>

AddMsg(w, i) ==
  /\ Alive(w) /\ fields[w][i].tag \in GroupTags /\ fields[w][i].items < MaxItems
  /\ fields' = [fields EXCEPT ![w][i].items = @ + 1]
  /\ UNCHANGED <<status, made, message, items, stale, broken, crossed>>

FreeWire(w) ==
  /\ status[w] = "caller"
  /\ status' = [status EXCEPT ![w] = "freed"]
  /\ fields' = [fields EXCEPT ![w] = <<>>]
  /\ UNCHANGED <<made, message, items, stale, broken, crossed>>

-----------------------------------------------------------------------------
(* remap(): emplace keeps the first field of a tag and its position; the   *)
(* items of every field of a tag become messages on the heap.              *)
At(fs, tag) == {i \in DOMAIN fs : fs[i].tag = tag}
TagsOf(fs) == {fs[i].tag : i \in DOMAIN fs}
Total(f, set) == FoldFunctionOnSet(LAMBDA x, y : x + y, 0, f, set)
ItemsOf(fs, tag) == Total([i \in DOMAIN fs |-> fs[i].items], At(fs, tag))
FirstOf(fs, tag) == Min(At(fs, tag))
CountsTags(fs, tag) == Cardinality({fs[i].tag : i \in 1..FirstOf(fs, tag)})
Position(fs, tag) == FirstOf(fs, tag)
Remap(w, own) ==
  LET fs == fields[w]
  IN [wire   |-> w, own |-> own,
      find   |-> [t \in TagsOf(fs) |-> fs[FirstOf(fs, t)].id],
      index  |-> [t \in TagsOf(fs) |-> Position(fs, t)],
      groups |-> [t \in {u \in TagsOf(fs) : ItemsOf(fs, u) > 0} |-> ItemsOf(fs, t)]]
Items(view) == Total(view.groups, DOMAIN view.groups)

(* UFEMessage(msg, own): with own the wire message is the message's.       *)
Construct(m, w, own) ==
  /\ ~Exists(m) /\ Alive(w) /\ (own => status[w] = "caller")
  /\ status' = IF own THEN [status EXCEPT ![w] = "owned"] ELSE status
  /\ message' = [message EXCEPT ![m] = Remap(w, own)]
  /\ items' = items + Items(Remap(w, own))
  /\ stale' = stale \ {m}
  /\ UNCHANGED <<fields, made, broken, crossed>>

(* operator=: the groups go, the maps are cleared and made again; _own is  *)
(* const and stays: an owner leaves its wire message to nobody and from    *)
(* then on owns the one it is assigned.                                    *)
Uncleared(m, w) == [Remap(w, message[m].own) EXCEPT !.find = message[m].find @@ @,
                                                    !.index = message[m].index @@ @]
Remapped(m, w) == Remap(w, message[m].own)
NotDeleted(m) == 0
Deleted(m) == Items(message[m])
Assign(m, w) ==
  /\ Exists(m) /\ Alive(w)
  /\ message' = [message EXCEPT ![m] = Remapped(m, w)]
  /\ items' = items - Deleted(m) + Items(Remap(w, FALSE))
  /\ stale' = stale \ {m}
  /\ crossed' = IF message[m].own /\ message[m].wire # w
                THEN crossed \cup {message[m].wire, w} ELSE crossed
  /\ UNCHANGED <<status, fields, made, broken>>

(* ~UFEMessage(): delete _wmsg if _own, and the groups. *)
DeletesAlways(m) == TRUE
DeletesWire(m) == message[m].own
Destroy(m) ==
  /\ Exists(m)
  /\ IF DeletesWire(m)
     THEN /\ status' = [status EXCEPT ![message[m].wire] = "freed"]
          /\ fields' = [fields EXCEPT ![message[m].wire] = <<>>]
          /\ broken' = ~Alive(message[m].wire)
     ELSE UNCHANGED <<status, fields, broken>>
  /\ items' = items - Items(message[m])
  /\ message' = [message EXCEPT ![m] = NoView]
  /\ UNCHANGED <<made, stale, crossed>>

(* factory(): a wire message is made and parsed from what src serialises   *)
(* to, and owned.                                                          *)
Parsed(fs) == [i \in DOMAIN fs |-> [fs[i] EXCEPT !.id = made + i]]
Factory(m, w, src) ==
  /\ ~Exists(m) /\ status[w] = "unused" /\ Alive(src)
  /\ made + Len(fields[src]) <= MaxFields
  /\ made' = made + Len(fields[src])
  /\ fields' = [fields EXCEPT ![w] = Parsed(fields[src])]
  /\ status' = [status EXCEPT ![w] = "owned"]
  /\ message' = [message EXCEPT ![m] = Remap(w, TRUE)']
  /\ items' = items + Items(message'[m])
  /\ stale' = stale \ {m}
  /\ UNCHANGED <<broken, crossed>>

(* remove_field(): erase at the position that was mapped.  Past the end    *)
(* the behaviour is undefined.                                             *)
RemoveField(m, tag) ==
  /\ Exists(m) /\ Alive(message[m].wire) /\ tag \in DOMAIN message[m].index
  /\ LET w == message[m].wire
         i == message[m].index[tag]
     IN \/ /\ i <= Len(fields[w])
           /\ fields' = [fields EXCEPT ![w] = RemoveAt(@, i)]
           /\ stale' = stale \cup {n \in Messages : message[n].wire = w}
           /\ UNCHANGED broken
        \/ /\ i > Len(fields[w])
           /\ broken' = TRUE
           /\ UNCHANGED <<fields, stale>>
  /\ UNCHANGED <<status, made, message, items, crossed>>

-----------------------------------------------------------------------------
Next ==
  \/ ~broken /\ \/ \E w \in Wires : \/ NewWire(w) \/ FreeWire(w)
                                    \/ \E tag \in Tags : AddField(w, tag)
                                    \/ \E i \in DOMAIN fields[w] : AddMsg(w, i)
                \/ \E m \in Messages :
                     \/ \E w \in Wires : \/ \E own \in BOOLEAN : Construct(m, w, own)
                                         \/ Assign(m, w)
                                         \/ \E src \in Wires : Factory(m, w, src)
                     \/ \E tag \in Tags : RemoveField(m, tag)
                     \/ Destroy(m)
  \/ UNCHANGED vars

Spec == Init /\ [][Next]_vars

-----------------------------------------------------------------------------
(* Every variable has its type, and every group item on the heap belongs   *)
(* to one message: none is leaked, none is freed twice.                    *)
TypeOK ==
  /\ status \in [Wires -> {"unused", "caller", "owned", "freed"}]
  /\ fields \in [Wires -> Seq([id : 1..MaxFields, tag : Tags, items : 0..MaxItems])]
  /\ made \in 0..MaxFields
  /\ \A m \in Messages : /\ message[m].wire \in Wires \cup {None}
                         /\ message[m].own \in BOOLEAN
                         /\ DOMAIN message[m].find = DOMAIN message[m].index
                         /\ DOMAIN message[m].groups \subseteq GroupTags
  /\ stale \subseteq Messages /\ crossed \subseteq Wires
  /\ broken \in BOOLEAN
  /\ items = Total([m \in Messages |-> Items(message[m])], Messages)

(* As long as nothing was removed from its live wire message, whatever was *)
(* added and however often the message was assigned, a message finds the   *)
(* first field of each tag it mapped, at the position it mapped.           *)
FindsFirst ==
  \A m \in Messages : Exists(m) /\ m \notin stale /\ Alive(message[m].wire) =>
    \A t \in DOMAIN message[m].find :
      LET fs == fields[message[m].wire]
          i == message[m].index[t]
      IN /\ i \in DOMAIN fs /\ fs[i].tag = t /\ fs[i].id = message[m].find[t]
         /\ \A j \in 1..i-1 : fs[j].tag # t

(* remove_field() erases the very field its message mapped, if nothing was *)
(* removed since; otherwise perhaps a later field, never an earlier one.   *)
Ids(fs) == {fs[i].id : i \in DOMAIN fs}
RemovesMapped ==
  [][\A m \in Messages, t \in Tags : RemoveField(m, t) /\ ~broken' =>
       LET w == message[m].wire
       IN \E erased \in Ids(fields[w]) \ Ids(fields'[w]) :
            /\ erased >= message[m].find[t]
            /\ m \notin stale => erased = message[m].find[t]]_vars

(* A wire message that a message owns has exactly one such message, which  *)
(* frees it once; the caller's are never freed by a message.  Only         *)
(* operator= on an owner breaks this, and only for the wire message it     *)
(* leaves, which leaks, and the one it takes, which it will free.          *)
Owns(m, w) == message[m].own /\ message[m].wire = w
WireOwned ==
  \A w \in Wires \ crossed :
    /\ status[w] = "owned" <=> \E m \in Messages : Owns(m, w)
    /\ \A m, n \in Messages : Owns(m, w) /\ Owns(n, w) => m = n
=============================================================================
