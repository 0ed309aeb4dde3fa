--------------------------- MODULE MemoryProfiler ---------------------------
(***************************************************************************)
(* The memory profiler process (src/memory_profiler.{hpp,cpp}): profiling  *)
(* runs of jemalloc, ended by a timer or by /stop, and the files generated *)
(* from them.  The process handles one event of its mailbox at a time; the *)
(* timer of a run that has expired is an event already in the mailbox,     *)
(* which Clock::cancel can no longer take back.                            *)
(*                                                                         *)
(* Run ids are seconds of the system clock, so two runs may share one; the *)
(* contents of a file are the number of the run it was made from.          *)
(***************************************************************************)
EXTENDS Integers, Sequences, FiniteSets

CONSTANTS
  MaxTime,     \* bound on the seconds that pass
  MaxRuns,     \* bound on the runs started
  MaxMailbox,  \* bound on the events waiting
  MaxExternal  \* bound on interferences of others with jemalloc

VARIABLES
  supported,  \* jemalloc was detected and built with profiling
  active,     \* its setting prof.active
  now,        \* the system clock, in seconds
  runs,       \* ids of the runs started, by number
  currentRun, \* number of the current run, 0 for None
  timer,      \* timers armed: the runs whose timeout they deliver
  mailbox,    \* events of the process
  artifact,   \* "raw", "text", "graph" -> the id of the DiskArtifact, 0 for Error
  disk,       \* ... -> run whose data the file of that name holds, 0 if spoilt
  served,     \* last download: <<artifact, id, run>>, or <<>>
  checked,    \* every CHECK so far held
  external    \* interferences so far

vars == <<supported, active, now, runs, currentRun, timer, mailbox, artifact,
          disk, served, checked, external>>

Kinds == {"raw", "text", "graph"}
Ids == 1..MaxTime
Runs == 1..MaxRuns
Events == {<<"start">>, <<"stop">>, <<"timeout">>} \cup
          {<<k, id>> : k \in Kinds, id \in Ids \cup {0}}

TypeOK ==
  /\ supported \in BOOLEAN /\ active \in BOOLEAN /\ checked \in BOOLEAN
  /\ now \in Ids /\ runs \in Seq(Ids) /\ Len(runs) <= MaxRuns
  /\ currentRun \in {0} \cup Runs
  /\ timer \subseteq Runs
  /\ mailbox \in Seq(Events)
  /\ artifact \in [Kinds -> {0} \cup Ids]
  /\ disk \in [Kinds -> {0} \cup Runs]
  /\ external \in 0..MaxExternal

Handling(e) == mailbox # <<>> /\ Head(mailbox) = e /\ mailbox' = Tail(mailbox)

(***************************************************************************)
(* /start: begins a run when profiling was inactive; a second start during *)
(* a run changes nothing.                                                  *)
(***************************************************************************)
start ==
  /\ Handling(<<"start">>)
  /\ IF supported
     THEN /\ active' = TRUE
          /\ IF active THEN UNCHANGED <<runs, currentRun, timer>>
             ELSE /\ runs' = Append(runs, now)
                  /\ currentRun' = Len(runs) + 1
                  /\ timer' = timer \cup {Len(runs) + 1}
     ELSE UNCHANGED <<active, runs, currentRun, timer>>
  /\ UNCHANGED <<supported, now, artifact, disk, served, checked, external>>

\* DiskArtifact::create: the generator may fail, having spoilt the old file.
Create(kind, id, run) ==
  \/ /\ artifact' = [artifact EXCEPT ![kind] = id]
     /\ disk' = [disk EXCEPT ![kind] = run]
  \/ /\ artifact' = [artifact EXCEPT ![kind] = 0]
     /\ disk' = [disk EXCEPT ![kind] = 0]

\* MUTANT: the run is not forgotten when it is stopped.
stopAndGenerateRawProfile_keep ==
  IF currentRun = 0 THEN UNCHANGED <<active, currentRun, timer, artifact, disk>>
  ELSE /\ active' = FALSE
       /\ timer' = timer \ {currentRun}
       /\ IF active THEN Create("raw", runs[currentRun], currentRun)
                    ELSE UNCHANGED <<artifact, disk>>
       /\ UNCHANGED currentRun

\* A stopProfiling that fails, and its retry five seconds later, are left out:
\* jemalloc takes the setting whenever it was built with profiling.
stopAndGenerateRawProfile ==
  IF currentRun = 0 THEN UNCHANGED <<active, currentRun, timer, artifact, disk>>
  ELSE /\ active' = FALSE
       /\ timer' = timer \ {currentRun}
       /\ currentRun' = 0
       /\ IF active THEN Create("raw", runs[currentRun], currentRun)
                    ELSE UNCHANGED <<artifact, disk>>

\* /stop: refuses to touch profiling that was started externally.
stop ==
  /\ Handling(<<"stop">>)
  /\ IF ~supported \/ (currentRun = 0 /\ active)
     THEN UNCHANGED <<active, currentRun, timer, artifact, disk, checked>>
     ELSE /\ stopAndGenerateRawProfile
          /\ checked' = (checked /\ (artifact'["raw"] # 0 => ~active'))
  /\ UNCHANGED <<supported, now, runs, served, external>>

Timeout ==
  /\ Handling(<<"timeout">>)
  /\ stopAndGenerateRawProfile
  /\ UNCHANGED <<supported, now, runs, served, checked, external>>

(***************************************************************************)
(* The downloads.  Without an id the latest profile is served, unless a    *)
(* run is in progress; the derived files are generated when the cached one *)
(* is of another version.                                                  *)
(***************************************************************************)
Refused(id) ==
  \/ currentRun # 0 /\ id = 0
  \/ artifact["raw"] = 0
  \/ id # 0 /\ id # artifact["raw"]

downloadRawProfile(id) ==
  /\ Handling(<<"raw", id>>)
  /\ served' = IF Refused(id) THEN <<>> ELSE <<"raw", artifact["raw"], disk["raw"]>>
  /\ UNCHANGED <<supported, active, now, runs, currentRun, timer, artifact, disk,
                 checked, external>>

\* MUTANT: a cached file is served whatever its version.
downloadProfile_cached(kind, id) ==
  /\ Handling(<<kind, id>>)
  /\ IF Refused(id) THEN served' = <<>> /\ UNCHANGED <<artifact, disk>>
     ELSE /\ IF artifact[kind] = 0
             THEN Create(kind, artifact["raw"], disk["raw"])
             ELSE UNCHANGED <<artifact, disk>>
          /\ served' = IF artifact'[kind] = 0 THEN <<>>
                       ELSE <<kind, artifact["raw"], disk'[kind]>>
  /\ UNCHANGED <<supported, active, now, runs, currentRun, timer, checked, external>>

\* downloadSymbolizedProfile and downloadGraphProfile.
downloadProfile(kind, id) ==
  /\ Handling(<<kind, id>>)
  /\ IF Refused(id) THEN served' = <<>> /\ UNCHANGED <<artifact, disk>>
     ELSE /\ IF artifact[kind] # artifact["raw"]
             THEN Create(kind, artifact["raw"], disk["raw"])
             ELSE UNCHANGED <<artifact, disk>>
          /\ served' = IF artifact'[kind] = 0 THEN <<>>
                       ELSE <<kind, artifact["raw"], disk'[kind]>>
  /\ UNCHANGED <<supported, active, now, runs, currentRun, timer, checked, external>>

(***************************************************************************)
(* The clock, the clients, and code outside of libprocess.                 *)
(***************************************************************************)
Expire(r) ==
  /\ r \in timer
  /\ timer' = timer \ {r}
  /\ mailbox' = Append(mailbox, <<"timeout">>)
  /\ UNCHANGED <<supported, active, now, runs, currentRun, artifact, disk, served,
                 checked, external>>

Starts == Cardinality({i \in DOMAIN mailbox : mailbox[i] = <<"start">>})
Request(e) ==
  /\ Len(mailbox) < MaxMailbox
  /\ e = <<"start">> => Len(runs) + Starts < MaxRuns
  /\ mailbox' = Append(mailbox, e)
  /\ UNCHANGED <<supported, active, now, runs, currentRun, timer, artifact, disk,
                 served, checked, external>>

Second ==
  /\ now < MaxTime
  /\ now' = now + 1
  /\ UNCHANGED <<supported, active, runs, currentRun, timer, mailbox, artifact, disk,
                 served, checked, external>>

Interfere ==
  /\ supported /\ external < MaxExternal
  /\ active' = ~active
  /\ external' = external + 1
  /\ UNCHANGED <<supported, now, runs, currentRun, timer, mailbox, artifact, disk,
                 served, checked>>

Init ==
  /\ supported \in BOOLEAN /\ active = FALSE /\ now = 1 /\ runs = <<>>
  /\ currentRun = 0 /\ timer = {} /\ mailbox = <<>>
  /\ artifact = [k \in Kinds |-> 0] /\ disk = [k \in Kinds |-> 0]
  /\ served = <<>> /\ checked = TRUE /\ external = 0

Handler ==
  \/ start \/ stop \/ Timeout
  \/ \E id \in Ids \cup {0} : \/ downloadRawProfile(id)
                              \/ \E k \in {"text", "graph"} : downloadProfile(k, id)

Next ==
  \/ Handler
  \/ \E r \in Runs : Expire(r)
  \/ \E e \in Events \ {<<"timeout">>} : Request(e)
  \/ Second \/ Interfere

Spec == Init /\ [][Next]_vars

\* The process keeps handling events and timers expire.
FairSpec == Spec /\ WF_vars(Handler) /\ \A r \in Runs : WF_vars(Expire(r))

-----------------------------------------------------------------------------
Queued == \E i \in DOMAIN mailbox : mailbox[i] = <<"timeout">>

\* A run always has an end in sight: its timer, or a timeout on its way.
\* Profiling that libprocess started is never left active without a run
\* (unless somebody else switched it on), the CHECK in /stop holds, the raw
\* artifact is backed by the file of a run with its id, and whatever version
\* a download was asked for, the file served was made from a run with that id.
ProfilerSafe ==
  /\ currentRun # 0 => currentRun \in timer \/ Queued
  /\ active /\ external = 0 => currentRun # 0
  /\ checked
  /\ \A k \in Kinds : artifact[k] # 0 => disk[k] # 0 /\ runs[disk[k]] = artifact[k]
  /\ served # <<>> => served[3] # 0 /\ runs[served[3]] = served[2]

\* Every profiling run ends.
Owed(r) == r \in Runs /\ currentRun = r
Paid(r) == currentRun # r
RunsEnd == \A r \in Runs : Owed(r) ~> Paid(r)
=============================================================================
