----------------------------- MODULE Workspace -----------------------------
(***************************************************************************)
(* The order in which the window lists remote (SSH) and local sessions,    *)
(* one group after the other.  The store keeps two lists of sessions and   *)
(* one list of ids for the order; the order is repaired whenever it is     *)
(* used, as remote sessions come and go without touching it.               *)
(***************************************************************************)
EXTENDS Naturals, SequencesExt, FiniteSetsExt, TLC

CONSTANTS Remote, Local,    \* session ids
          Groups, Ungrouped \* group names; DEFAULT_SESSION_GROUP

VARIABLES ssh, local,  \* store.sessions and store.local_sessions, as ids
          group,       \* the group of every session
          order,       \* store.workspace_order
          move         \* history: the last move of a session, if it is the last step

stored == <<ssh, local, group, order>>
vars   == <<stored, move>>

\* workspace_blocks of sessions s and l, their groups g and an order o: the groups
\* in the order of their first sessions, each with its sessions; ids that are
\* gone, or listed before, are skipped.
Arranged(s, l, g, o) ==
  LET ids   == ToSet(s) \cup ToSet(l)
      all   == o \o s \o l
      rank  == [id \in ids |-> Min({i \in DOMAIN all : all[i] = id})]
      first == [id \in ids |-> Min({rank[x] : x \in {y \in ids : g[y] = g[id]}})]
  IN SortSeq(s \o l, LAMBDA x, y : first[x] < first[y] \/ (first[x] = first[y] /\ rank[x] < rank[y]))

NoMove     == [id |-> Ungrouped, group |-> Ungrouped, place |-> 0]
Shown      == Arranged(ssh, local, group, order)
GroupOrder ==
  LET ids   == Shown
      leads == SelectSeq([i \in DOMAIN ids |-> i], LAMBDA i : i = 1 \/ group[ids[i]] # group[ids[i - 1]])
  IN [i \in DOMAIN leads |-> group[ids[leads[i]]]]
Block(g)   == SelectSeq(Shown, LAMBDA id : group[id] = g)

\* commit_workspace: the order is repaired, and the remote sessions follow it.
\* If it cannot be saved, everything is as before.
Commit(s, l, g, o) ==
  /\ order' = Arranged(s, l, g, o)
  /\ ssh' = SelectSeq(order', LAMBDA id : id \in ToSet(s))
  /\ local' = l /\ group' = g

-----------------------------------------------------------------------------
\* create, update and delete of a remote session do not commit the order.
CreateRemote ==
  \E id \in Remote \ ToSet(ssh), g \in Groups :
    /\ ssh' = Append(ssh, id) /\ group' = [group EXCEPT ![id] = g]
    /\ UNCHANGED <<local, order>>

UpdateRemote ==
  \E id \in ToSet(ssh), g \in Groups :
    /\ group' = [group EXCEPT ![id] = g]
    /\ UNCHANGED <<ssh, local, order>>

DeleteRemote ==
  \E id \in ToSet(ssh) : ssh' = Remove(ssh, id) /\ UNCHANGED <<local, group, order>>

SaveLocal ==
  \E id \in Local, g \in Groups :
    Commit(ssh, IF Contains(local, id) THEN local ELSE Append(local, id), [group EXCEPT ![id] = g], order)

DeleteLocal == \E id \in ToSet(local) : Commit(ssh, Remove(local, id), group, order)

RenameGroup ==
  \E g \in ToSet(GroupOrder) \ {Ungrouped}, new \in Groups \ (ToSet(GroupOrder) \cup {Ungrouped}) :
    Commit(ssh, local, [id \in DOMAIN group |-> IF group[id] = g THEN new ELSE group[id]], order)

MoveGroup ==
  LET names == GroupOrder IN
    \E i, j \in DOMAIN names :
      LET moved == InsertAt(RemoveAt(names, i), j, names[i])
      IN Commit(ssh, local, group, FlattenSeq([n \in DOMAIN moved |-> Block(moved[n])]))

\* The session leaves its place before the new one is looked up.
InsertedFirst(block, id, k) == InsertAt(block, k, id)
Inserted(block, id, k)      == InsertAt(Remove(block, id), k, id)

MoveSession(id, g, k) ==
  /\ k \in 1 .. Len(Remove(Block(g), id)) + 1
  /\ move' = [id |-> id, group |-> g, place |-> k]
  /\ Commit(ssh, local, [group EXCEPT ![id] = g],
            LET names == GroupOrder
            IN FlattenSeq([i \in DOMAIN names |->
                 IF names[i] = g THEN Inserted(Block(g), id, k) ELSE Remove(Block(names[i]), id)]))

\* delete_workspace_group: the remote sessions go first, in a save of their own;
\* the local ones stay if the second save fails.
DeleteGroup ==
  \E g \in ToSet(GroupOrder) \ {Ungrouped} :
    LET kept == SelectSeq(ssh, LAMBDA id : group[id] # g) IN
      \/ Commit(kept, SelectSeq(local, LAMBDA id : group[id] # g), group, order)
      \/ ssh' = kept /\ UNCHANGED <<local, group, order>>

Init ==
  /\ ssh = << >> /\ local = << >> /\ order = << >>
  /\ group = [id \in Remote \cup Local |-> Ungrouped]
  /\ move = NoMove

Next ==
  \/ /\ \/ CreateRemote \/ UpdateRemote \/ DeleteRemote \/ SaveLocal \/ DeleteLocal
        \/ RenameGroup \/ MoveGroup \/ DeleteGroup
     /\ move' = NoMove
  \/ \E id \in ToSet(Shown), g \in ToSet(GroupOrder), k \in 1 .. Len(Shown) : MoveSession(id, g, k)

Spec == Init /\ [][Next]_vars
-----------------------------------------------------------------------------
\* A session that is moved lands at the place asked for, and nothing else moves:
\* the other sessions, and the groups that remain, keep their order, although
\* remote sessions have come and gone since the order was last saved.
MoveLands ==
  [][move' # NoMove =>
       /\ \A g \in Groups : g = move'.group => Block(g)'[move'.place] = move'.id
       /\ \A g \in Groups : Remove(Block(g)', move'.id) = Remove(Block(g), move'.id)
       /\ GroupOrder' = SelectSeq(GroupOrder, LAMBDA g : \E id \in Remote \cup Local : Contains(Block(g)', id))]_vars
=============================================================================
