---------------------------- MODULE MCRemoteWork ----------------------------
(***************************************************************************)
(* What is done through a connection: the transfers of files, the jobs of  *)
(* the tabs that start them, the file browser, the search of an agent, the *)
(* samples of its device, and the tunnel through a proxy below it all.     *)
(* They share no state: a behaviour of this instance is one of the         *)
(* component it starts with, the others stay in one initial state.         *)
(***************************************************************************)
EXTENDS FileTransfer, Sequences, TLC

CONSTANTS upload, download, tab1, tab2, ssh1, eth0, file1, file2, op1, op2, None

VARIABLES component,
  of, alive, known, job, file, overwrite, state, flag, token, decision, exit,
  scheme, secret, stream, arrived, closed, step, taken, result, sent,
  tree, busy, browse, foreign, content, scan,
  listed, starting, monitor, quitting, clock, log

\* The directories of the server: file1/file2/file1 is a file, file1/file1 a link.
OfKind(kind, p) == p :> [kind |-> kind, id |-> p]
ServerTree ==
  OfKind("dir", <<file1>>) @@ OfKind("dir", <<file1, file2>>) @@ OfKind("file", <<file1, file2, file1>>)
    @@ OfKind("link", <<file1, file1>>) @@ OfKind("dir", <<file2>>)
AskedFor ==
  {<<file1>>, <<"..", file1, ".">>, <<file2>>, <<file1, file2>>, <<file1, file1>>, <<file2, file1>>, <<".">>}

TabJobs == INSTANCE TransferJobs WITH Jobs <- {upload, download}, Uploads <- {upload}, Runtimes <- {tab1, tab2},
             MaxJobs <- 2, Slots <- 1, MaxFiles <- 2, task <- job
Tunnel  == INSTANCE ProxyTunnel WITH Limit <- 11, Banner <- <<83, 83>>
Remote  == INSTANCE RemoteFiles WITH Names <- {file1, file2}, Tasks <- {op1, op2}, Requests <- AskedFor,
             First <- {ServerTree}, Depth <- 3, MaxForeign <- 1, Growth <- 5, Windows <- {2, 4}, Limits <- {1, 2},
             Afters <- {0, 1}, task <- browse, log <- content
Curves  == INSTANCE DeviceMetrics WITH Connections <- {ssh1}, Interfaces <- {eth0}, Interval <- 1, Window <- 1,
             MaxSamples <- 2, MaxTime <- 4, MaxBytes <- 1, exit <- quitting

jobVars    == <<of, alive, known, job, file, overwrite, state, flag, token, decision, exit>>
tunnelVars == <<scheme, secret, stream, arrived, closed, step, taken, result, sent>>
treeVars   == <<tree, busy, browse, foreign>>
searchVars == <<content, scan>>
curveVars  == <<listed, starting, monitor, quitting, clock, log>>

In(c) == component = c

\* The upload and the download share a tab or a connection.
Ways ==
  LET c == CHOOSE c \in Connections : TRUE
      o == CHOOSE o \in Connections \ {c} : TRUE
      way(tab, conn) == [runtime |-> tab, connection |-> conn]
  IN  [up : {way(tab1, c)}, down : {way(tab1, o), way(tab2, c)}]

Streams == {answer \o <<83, 83>> : answer \in Tunnel!HttpAnswers}

MCInit ==
  /\ component \in {"files", "jobs", "tunnel", "browser", "search", "curves"}
  /\ Init /\ (In("files") \/ target = [s \in Sides |-> Absent])
  /\ TabJobs!Init
  /\ \E w \in Ways : of = [j \in {upload, download} |-> IF j = upload THEN w.up ELSE w.down]
  /\ In("jobs") \/ of[upload].runtime = of[download].runtime
  /\ Tunnel!Init
  /\ In("tunnel") \/ (scheme = "http" /\ ~secret /\ stream = CHOOSE s \in Streams : TRUE)
  /\ Remote!Init /\ (In("browser") \/ ~busy) /\ (In("search") \/ scan = CHOOSE n \in Remote!NewScan : TRUE)
  /\ Curves!Init

MCNext ==
  /\ UNCHANGED component
  /\ \/ In("files") /\ Next /\ UNCHANGED <<jobVars, tunnelVars, treeVars, searchVars, curveVars>>
     \/ In("jobs") /\ TabJobs!Next /\ UNCHANGED <<vars, tunnelVars, treeVars, searchVars, curveVars>>
     \/ In("tunnel") /\ Tunnel!Next /\ UNCHANGED <<vars, jobVars, treeVars, searchVars, curveVars>>
     \/ In("browser") /\ Remote!FilesNext /\ UNCHANGED <<vars, jobVars, tunnelVars, searchVars, curveVars>>
     \/ In("search") /\ Remote!ScanNext /\ UNCHANGED <<vars, jobVars, tunnelVars, curveVars>>
     \/ In("curves") /\ Curves!Next /\ UNCHANGED <<vars, jobVars, tunnelVars, treeVars, searchVars>>

MCSpec == MCInit /\ [][MCNext]_<<component, vars, jobVars, tunnelVars, treeVars, searchVars, curveVars>>

\* Transfer ids are random, and requests to the file browser carry none.
Symmetry == Permutations(Transfers) \cup Permutations({op1, op2})
-----------------------------------------------------------------------------
\* FilesTidy, of FileTransfer: the files of a transfer (connection_manager/transfer.rs)
\* that ended, failed, was cancelled or was refused.

\* The user's files are never lost on the way (FileTransfer), and a search that goes
\* on gets further (RemoteFiles).
FilesKept == NothingLost /\ Remote!SearchAdvances

\* What is done on a connection does not disturb what others do there.  The jobs of
\* the tabs (transfer_job_service.rs) work one transfer each and leave nothing behind,
\* the task that samples a device (device_metrics_service.rs) stays stopped and draws
\* what it saw: see TransferJobs and DeviceMetrics.  The file browser deletes what was
\* asked for, an agent's file is old or new (connection_manager/remote_files.rs), and
\* a search in several calls shows what it found (mcp/search.rs): see RemoteFiles.
TasksApart ==
  /\ In("jobs") => (TabJobs!OneTransfer /\ TabJobs!ExitCleans)
  /\ In("curves") => (Curves!StaysStopped /\ Curves!CurveTrue)
  /\ In("browser") => (Remote!DeleteExact /\ Remote!WriteTidy)
  /\ In("search") => Remote!SearchComplete

\* The tunnel through a proxy (network/src/lib.rs): see ProxyTunnel.
TunnelClean == In("tunnel") => (Tunnel!FirstByteOfServer /\ Tunnel!PasswordOnlyAsked)

-----------------------------------------------------------------------------
\* Not in the configuration, for they do not hold: that a search in several calls
\* finds every line with the text (src/README.md:41),
SearchFinds == Remote!SearchFinds

\* and that a rate of the network is of one interface (device_service.rs:221).
RateOfOne == Curves!RateOfOne
=============================================================================
