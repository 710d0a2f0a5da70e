--------------------------- MODULE BoardContents ---------------------------
(***************************************************************************)
(* One board at monday, as ProvisionBoard fills it and Snapshot reads it:    *)
(* its columns, its groups from top to bottom, its items in listing order,   *)
(* the other users who add, move and archive items, and the requests whose   *)
(* answer was lost, which monday may carry out at any time or never.  The    *)
(* account is external; what it does with a request is modelled from how the *)
(* service uses the answer.                                                 *)
(***************************************************************************)
EXTENDS Integers, Sequences, SequencesExt, FiniteSets

CONSTANTS
  Title,      \* group titles
  Default,    \* the group monday puts on a new board
  NoTitle, NoGroup,
  Column,     \* column IDs
  Name,       \* items, by name
  OthersAdd,  \* the items other users may add
  TouchMax,   \* bound: how many items other users touch
  Copy        \* what abandoned attempts make; bound: how many are abandoned

\* A created group is known by its title, one made by an abandoned attempt by
\* the attempt; so is an item or a column that such an attempt makes.
Group == Title \cup {Default} \cup Copy
Entry == [name : Name, group : Group]

ASSUME ContentNames ==
  /\ Default \notin Title /\ NoTitle \notin Title /\ NoGroup \notin Group
  /\ OthersAdd \subseteq Name /\ TouchMax \in Nat
  /\ Copy \subseteq Name \cap Column
  /\ Copy \cap (Title \cup {Default} \cup OthersAdd) = {}

\* An attempt whose answer was lost: which request it is, and the group that it
\* names.  It is under way until it is settled.
Attempt ==
  [of : {"unsent", "column", "group", "seed", "settled"}, at : Nat, after : Group \cup {NoGroup}]
Unsent == [of |-> "unsent", at |-> 0, after |-> NoGroup]
Settled == [of |-> "settled", at |-> 0, after |-> NoGroup]

VARIABLES
  columns,   \* the columns of the board
  groups,    \* its groups, from top to bottom
  titleOf,   \* the title of each group
  items,     \* its items, in the order monday lists them
  touched,   \* history: the items other users have added, moved or archived
  late       \* the attempts whose answer was lost

contents == <<columns, groups, titleOf, items, touched, late>>

ContentsOK ==
  /\ columns \subseteq Column
  /\ groups \in Seq(Group)
  /\ titleOf \in [Group -> Title \cup {NoTitle}]
  /\ items \in Seq(Entry)
  /\ touched \subseteq Name
  /\ late \in [Copy -> Attempt]

Names(list) == {list[k].name : k \in DOMAIN list}

OthersAddItem ==
  /\ groups # <<>>
  /\ \E n \in OthersAdd \ touched :
       /\ items' = Append(items, [name |-> n, group |-> groups[1]])
       /\ touched' = touched \cup {n}
       /\ UNCHANGED <<columns, groups, titleOf, late>>

OthersArchiveItem ==
  \E k \in DOMAIN items :
    /\ items' = RemoveAt(items, k)
    /\ touched' = touched \cup {items[k].name}
    /\ UNCHANGED <<columns, groups, titleOf, late>>

OthersMoveItem ==
  \E k \in DOMAIN items, g \in ToSet(groups) :
    /\ items[k].group # g
    /\ items' = [items EXCEPT ![k].group = g]
    /\ touched' = touched \cup {items[k].name}
    /\ UNCHANGED <<columns, groups, titleOf, late>>

OthersAct ==
  /\ Cardinality(touched) < TouchMax
  /\ OthersAddItem \/ OthersArchiveItem \/ OthersMoveItem
=============================================================================
