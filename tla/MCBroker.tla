------------------------------- MODULE MCBroker -------------------------------
(* Small instances of CredentialBroker: one session that moves between three  *)
(* targets, one of them with a key file, or a group of two with one target.   *)
EXTENDS CredentialBroker
CONSTANTS i, j, a, b, c
VARIABLE part

Sym == Permutations(Tickets) \cup Permutations({a, b})

MCInit ==
  /\ Init /\ part \in {"one", "group"}
  /\ part = "one" => file[j] = None
  /\ part = "group" => \A s \in Ids : file[s] \in {a, None}

Changes == {pending[t] : t \in Tickets} \ {None}

\* One session with every target, or a group of them with one.
Within ==
  IF part = "one" THEN desktop.item # j /\ desktop.ids \subseteq {i}
  ELSE desktop.target \in {a, None} /\ \A p \in Changes : p.revision = 0 /\ p.target \in {a, None}

MCNext == UNCHANGED part /\ Next /\ Within'
MCSpec == MCInit /\ [][MCNext]_<<part, vars>>

=============================================================================
