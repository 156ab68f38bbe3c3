------------------------------ MODULE AppUpdate ------------------------------
(***************************************************************************)
(* An update of the program: a desktop downloads a package and sends it to *)
(* the broker service, which stages it under a ticket (broker update.rs,   *)
(* receive); an elevated process, started with the ticket, verifies it     *)
(* once more, asks the user and runs it (install).  The directory of the   *)
(* stage is all they share; Windows refuses to remove a file that is open. *)
(***************************************************************************)
EXTENDS Naturals, FiniteSets

CONSTANTS Desktops,
          Helpers,     \* elevated processes
          MaxTickets,  \* bound: packages staged
          None

VARIABLES pending,   \* desktops with an update that a check has found
          desk,      \* step of install_app_update, "idle" when it does not run
          ticket,    \* the one a desktop or a helper has
          manifest,  \* None, or [ticket, expired]
          installer, \* None, or the ticket of the package in it, 0 while it is not complete
          claimed,   \* the file is there
          upload,    \* desktop whose package the service receives
          issued,    \* tickets given out
          helper,    \* step of each helper
          installs   \* [helper, ticket] of every installer that was run

vars == <<pending, desk, ticket, manifest, installer, claimed, upload, issued, helper, installs>>

Init ==
  /\ pending = {} /\ desk = [d \in Desktops |-> "idle"]
  /\ ticket = [x \in Desktops \cup Helpers |-> 0]
  /\ manifest = None /\ installer = None /\ claimed = FALSE /\ upload = None /\ issued = 0
  /\ helper = [h \in Helpers |-> "none"] /\ installs = {}

\* The files a helper has open, and that nobody can remove or replace.
HoldsManifest == \E h \in Helpers : helper[h] \in {"opened", "verified", "runs"}
HoldsInstaller == \E h \in Helpers : helper[h] \in {"verified", "runs"}
-----------------------------------------------------------------------------
\* The desktop.

\* check clears what it knew before it asks the sources.
Check(d) ==
  /\ \/ d \in pending /\ pending' = pending \ {d}
     \/ d \notin pending /\ pending' = pending \cup {d}
  /\ UNCHANGED <<desk, ticket, manifest, installer, claimed, upload, issued, helper, installs>>

Goto(d, step) == desk' = [desk EXCEPT ![d] = step]

\* install_inner, past the swap of "installing".
Download(d) ==
  /\ desk[d] = "idle" /\ d \in pending /\ Goto(d, "downloaded")
  /\ UNCHANGED <<pending, ticket, manifest, installer, claimed, upload, issued, helper, installs>>

\* An error of any step: of the download, the service or the elevation.
Fails(d) ==
  /\ desk[d] \in {"downloaded", "staged", "elevated"} /\ upload # d /\ Goto(d, "idle")
  /\ UNCHANGED <<pending, ticket, manifest, installer, claimed, upload, issued, helper, installs>>

\* elevate_update: UAC starts a helper.
Elevate(d, h) ==
  /\ desk[d] = "staged" /\ helper[h] = "none" /\ Goto(d, "elevated")
  /\ helper' = [helper EXCEPT ![h] = "started"] /\ ticket' = [ticket EXCEPT ![h] = ticket[d]]
  /\ UNCHANGED <<pending, manifest, installer, claimed, upload, issued, installs>>

\* The same command once more.
Again(h) ==
  /\ helper[h] = "none" /\ helper' = [helper EXCEPT ![h] = "started"]
  /\ \E t \in 1..issued : ticket' = [ticket EXCEPT ![h] = t]
  /\ UNCHANGED <<pending, desk, manifest, installer, claimed, upload, issued, installs>>

Done(d) ==
  /\ desk[d] = "elevated" /\ \E i \in installs : i.ticket = ticket[d]
  /\ Goto(d, "idle") /\ pending' = pending \ {d}
  /\ UNCHANGED <<ticket, manifest, installer, claimed, upload, issued, helper, installs>>
-----------------------------------------------------------------------------
\* The stage of the service.

\* Changed: what cannot be removed is left and written over.
ReplaceAnyway(d) ==
  /\ desk[d] = "downloaded" /\ upload = None /\ issued < MaxTickets
  /\ IF manifest = None THEN TRUE ELSE manifest.expired
  /\ upload' = d /\ issued' = issued + 1 /\ installer' = 0 /\ claimed' = FALSE
  /\ manifest' = [ticket |-> issued + 1, expired |-> FALSE]
  /\ UNCHANGED <<pending, desk, ticket, helper, installs>>

\* receive up to the new manifest: the lock, a ticket that is still good, the
\* files of the last one removed in order.
Receive(d) ==
  /\ desk[d] = "downloaded" /\ upload = None /\ issued < MaxTickets
  /\ IF manifest = None THEN TRUE ELSE manifest.expired
  /\ IF HoldsManifest
     THEN /\ installer' = (IF HoldsInstaller THEN installer ELSE None)
          /\ claimed' = (HoldsInstaller /\ claimed)
          /\ Goto(d, "idle") /\ UNCHANGED <<manifest, upload, issued>>
     ELSE /\ upload' = d /\ issued' = issued + 1 /\ installer' = 0 /\ claimed' = FALSE
          /\ manifest' = [ticket |-> issued + 1, expired |-> FALSE] /\ UNCHANGED desk
  /\ UNCHANGED <<pending, ticket, helper, installs>>

\* All of it has arrived and is verified; or not, and the manifest stays.
Received(d) ==
  /\ upload = d /\ upload' = None
  /\ \/ /\ installer' = issued /\ ticket' = [ticket EXCEPT ![d] = issued]
        /\ Goto(d, "staged")
     \/ Goto(d, "idle") /\ UNCHANGED <<installer, ticket>>
  /\ UNCHANGED <<pending, manifest, claimed, issued, helper, installs>>

\* Five minutes, or release_for_owner, which replaces the manifest.
Expire ==
  /\ manifest # None /\ manifest' = [manifest EXCEPT !.expired = TRUE]
  /\ UNCHANGED <<pending, desk, ticket, installer, claimed, upload, issued, helper, installs>>
-----------------------------------------------------------------------------
\* The helper (install_inner of the service's update.rs).

Become(h, step) == helper' = [helper EXCEPT ![h] = step]

Open(h) ==
  /\ helper[h] = "started" /\ manifest # None /\ Become(h, "opened")
  /\ UNCHANGED <<pending, desk, ticket, manifest, installer, claimed, upload, issued, installs>>

\* The ticket is that of the manifest and good, the package verified; then the
\* question to the user.
Verify(h) ==
  /\ helper[h] = "opened"
  /\ Become(h, IF manifest.ticket = ticket[h] /\ ~manifest.expired /\ installer = ticket[h]
               THEN "verified" ELSE "over")
  /\ UNCHANGED <<pending, desk, ticket, manifest, installer, claimed, upload, issued, installs>>

\* Changed: a claim that is there already is taken.
RunClaimed(h) ==
  /\ helper[h] = "verified" /\ Become(h, "runs") /\ claimed' = TRUE
  /\ installs' = installs \cup {[helper |-> h, ticket |-> installer]}
  /\ UNCHANGED <<pending, desk, ticket, manifest, installer, upload, issued>>

Run(h) ==
  /\ helper[h] = "verified"
  /\ IF claimed THEN Become(h, "over") /\ UNCHANGED <<claimed, installs>>
     ELSE /\ Become(h, "runs") /\ claimed' = TRUE
          /\ installs' = installs \cup {[helper |-> h, ticket |-> installer]}
  /\ UNCHANGED <<pending, desk, ticket, manifest, installer, upload, issued>>

\* No manifest, the answer "no", the end of the installer; then the ticket is released.
Ends(h) ==
  /\ helper[h] \in {"started", "verified", "runs"} /\ (helper[h] = "started" => manifest = None)
  /\ Become(h, "over")
  /\ UNCHANGED <<pending, desk, ticket, manifest, installer, claimed, upload, issued, installs>>

Release(h) ==
  /\ helper[h] = "over" /\ Become(h, "released")
  /\ IF manifest # None /\ ~HoldsManifest /\ manifest.ticket = ticket[h]
     THEN manifest' = [manifest EXCEPT !.expired = TRUE] ELSE UNCHANGED manifest
  /\ UNCHANGED <<pending, desk, ticket, installer, claimed, upload, issued, installs>>

Next ==
  \/ \E d \in Desktops :
       \/ Check(d) \/ Download(d) \/ Fails(d) \/ Done(d) \/ Receive(d) \/ Received(d)
       \/ \E h \in Helpers : Elevate(d, h)
  \/ \E h \in Helpers : Again(h) \/ Open(h) \/ Verify(h) \/ Run(h) \/ Ends(h) \/ Release(h)
  \/ Expire

Spec == Init /\ [][Next]_vars
-----------------------------------------------------------------------------
\* One installer runs at a time, whichever desktops stage packages and however
\* long the user takes to answer.
OneInstaller == Cardinality({h \in Helpers : helper[h] = "runs"}) <= 1

\* A ticket runs one installer, the package it was given for.
TicketOnce == \A i, o \in installs : i.ticket = ticket[i.helper] /\ (i.ticket = o.ticket => i = o)
=============================================================================
