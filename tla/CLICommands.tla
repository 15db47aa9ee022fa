---------------------------- MODULE CLICommands ----------------------------
(***************************************************************************)
(* Two things the command line does that are more than one call.           *)
(*                                                                         *)
(* batch-register (cmd/agentid/batch_register.go) registers the rows of a  *)
(* CSV file from a pool of goroutines behind a semaphore channel and       *)
(* collects their results.  A row that does not parse is reported through  *)
(* the same channel without a request.                                     *)
(*                                                                         *)
(* Every invocation reads ~/.agentid/config.yaml and `config set`, `config *)
(* reset` and `local init` rewrite it in several system calls: os.WriteFile*)
(* truncates the file before it writes it, and nothing locks it, so        *)
(* processes interleave and a crash may fall between any two calls.        *)
(***************************************************************************)
EXTENDS Integers, Sequences, FiniteSets

CONSTANTS
  RowLists,       \* CSV files: sequences over {"good", "bad"}
  Parallel,       \* --parallel
  Procs,          \* processes that touch the configuration file
  CLIMaxCommands, \* commands started on the configuration file
  Fields,         \* fields of Config, "mode" and "backend" among them
  CLIMaxFaults    \* failing or unanswered calls, crashes

\* runBatchRegister refuses a CSV file without rows and --parallel below 1.
ASSUME CLIAssumption ==
  /\ Parallel \in Nat \ {0} /\ CLIMaxFaults \in Nat
  /\ \A rs \in RowLists : rs \in Seq({"good", "bad"}) /\ rs # <<>>

VARIABLES
  batch,          \* runBatchRegister
  cfgFile,        \* config.yaml: NoFile, Torn, or a value for every field
  bakFile,        \* config.yaml.bak
  cfgCommands,    \* commands started so far
  proc,           \* processes working on the configuration file
  disturbed,      \* history: a process died half way or a rename failed
  overlapped,     \* history: two processes were at work at once
  cliFaults

batchVars == batch
cfgVars == <<cfgFile, bakFile, cfgCommands, proc, disturbed, overlapped>>
cliVars == <<batch, cfgVars, cliFaults>>

CLIFault == cliFaults < CLIMaxFaults /\ cliFaults' = cliFaults + 1

-----------------------------------------------------------------------------
(* batch-register *)

RowResult(i, sent, ok) == [row |-> i, sent |-> sent, ok |-> ok]

BatchInit ==
  batch \in {[rows |-> rs, next |-> 1, calling |-> {}, sem |-> {}, results |-> <<>>,
              out |-> <<>>, stored |-> {}, unanswered |-> {}, status |-> "dispatch"] :
               rs \in RowLists}

Alive == batch.status \in {"dispatch", "collect", "write"}

\* rowToRequest refuses the row: its result carries no request.
rowToRequest ==
  /\ batch.status = "dispatch" /\ batch.next <= Len(batch.rows)
  /\ batch.rows[batch.next] = "bad"
  /\ batch' = [batch EXCEPT !.next = @ + 1,
                            !.results = Append(@, RowResult(batch.next, FALSE, FALSE))]
  /\ UNCHANGED <<cfgVars, cliFaults>>

Launch ==
  /\ batch.status = "dispatch" /\ batch.next <= Len(batch.rows)
  /\ batch.rows[batch.next] = "good"
  /\ Cardinality(batch.sem) < Parallel
  /\ batch' = [batch EXCEPT !.next = @ + 1, !.sem = @ \cup {batch.next},
                            !.calling = @ \cup {batch.next}]
  /\ UNCHANGED <<cfgVars, cliFaults>>

\* The goroutine's call comes back: registered, failed, or registered with
\* the answer lost.
CallReturned(i, outcome) ==
  [batch EXCEPT !.calling = @ \ {i},
                !.results = Append(@, RowResult(i, TRUE, outcome = "ok")),
                !.stored = IF outcome = "failed" THEN @ ELSE @ \cup {i},
                !.unanswered = IF outcome = "lost" THEN @ \cup {i} ELSE @]

\* Bug: a failed call is logged and not sent to the collector.
RegisterReturns_ErrorNotSent(i) ==
  /\ Alive /\ i \in batch.calling
  /\ \/ batch' = CallReturned(i, "ok") /\ UNCHANGED cliFaults
     \/ batch' = [batch EXCEPT !.calling = @ \ {i}] /\ CLIFault
  /\ UNCHANGED cfgVars

RegisterReturns(i) ==
  /\ Alive /\ i \in batch.calling
  /\ \/ batch' = CallReturned(i, "ok") /\ UNCHANGED cliFaults
     \/ \E outcome \in {"failed", "lost"} : batch' = CallReturned(i, outcome) /\ CLIFault
  /\ UNCHANGED cfgVars

\* The deferred receive from sem, which close(sem) does not disturb.
Release(i) ==
  /\ Alive /\ i \in batch.sem \ batch.calling
  /\ batch' = [batch EXCEPT !.sem = @ \ {i}]
  /\ UNCHANGED <<cfgVars, cliFaults>>

CloseSem ==
  /\ batch.status = "dispatch" /\ batch.next > Len(batch.rows)
  /\ batch' = [batch EXCEPT !.status = "collect"]
  /\ UNCHANGED <<cfgVars, cliFaults>>

\* r.req.Owner is read before r.err: a result without a request panics, and
\* the process ends with its goroutines.
Collect ==
  /\ batch.status = "collect" /\ batch.results # <<>>
  /\ LET r == Head(batch.results)
         out == Append(batch.out, r) IN
     batch' = IF ~r.sent THEN [batch EXCEPT !.status = "panic"]
              ELSE [batch EXCEPT !.results = Tail(@), !.out = out,
                                 !.status = IF Len(out) = Len(batch.rows)
                                            THEN "write" ELSE @]
  /\ UNCHANGED <<cfgVars, cliFaults>>

writeBatchOutput ==
  /\ batch.status = "write"
  /\ \/ batch' = [batch EXCEPT !.status = "done"] /\ UNCHANGED cliFaults
     \/ batch' = [batch EXCEPT !.status = "error"] /\ CLIFault
  /\ UNCHANGED cfgVars

BatchNext ==
  \/ rowToRequest \/ Launch \/ CloseSem \/ Collect \/ writeBatchOutput
  \/ \E i \in batch.calling : RegisterReturns(i)
  \/ \E i \in batch.sem : Release(i)

-----------------------------------------------------------------------------
(* The configuration file.  A field is "default" or "set". *)

NoFile == [file |-> "absent"]
Torn == [file |-> "empty"]
Config(c) == [file |-> "yaml", fields |-> c]
DefaultConfig == [f \in Fields |-> "default"]

\* A missing file and an empty one both load as the defaults.
LoadConfig(file) == IF file.file = "yaml" THEN file.fields ELSE DefaultConfig

applyConfigSet(c, f) == [c EXCEPT ![f] = "set"]

CfgOps == [op : {"set"}, field : Fields] \cup [op : {"reset", "init", "force", "use"}]

NoCfgCommand == [pc |-> "idle"]

CfgInit ==
  /\ cfgFile \in {NoFile, Config([f \in Fields |-> "set"])}
  /\ bakFile = NoFile /\ cfgCommands = 0
  /\ proc = [p \in Procs |-> NoCfgCommand]
  /\ disturbed = FALSE /\ overlapped = FALSE

CfgWorking == {p \in Procs : proc[p].pc \notin {"idle", "end"}}

\* `was' and `bakWas' remember the files the command found.
StartCfg(p) ==
  /\ p \notin CfgWorking
  /\ cfgCommands < CLIMaxCommands /\ cfgCommands' = cfgCommands + 1
  /\ \E o \in CfgOps :
       proc' = [proc EXCEPT ![p] =
                  [op |-> o, was |-> cfgFile, bakWas |-> bakFile, cfg |-> DefaultConfig,
                   then |-> "end", now |-> NoFile, bakNow |-> NoFile,
                   pc |-> CASE o.op = "set" -> "stat" [] o.op = "reset" -> "rename"
                            [] o.op = "use" -> "load" [] o.op = "force" -> "truncate"
                            [] OTHER -> "stat"]]
  /\ overlapped' = (overlapped \/ CfgWorking # {})
  /\ UNCHANGED <<batch, cfgFile, bakFile, disturbed, cliFaults>>

\* The command goes on with `rec', leaving the two files as given; `now' and
\* `bakNow' remember what the last step left.
Goes(p, rec, file, bak) ==
  /\ cfgFile' = file /\ bakFile' = bak
  /\ proc' = [proc EXCEPT ![p] = IF rec.pc = "end" THEN [rec EXCEPT !.now = file, !.bakNow = bak] ELSE rec]
  /\ UNCHANGED <<batch, cfgCommands, disturbed, overlapped, cliFaults>>

\* ensureConfigFile writes the defaults before `set' loads; `init' leaves an
\* existing file alone.
Stat(p) ==
  /\ proc[p].pc = "stat"
  /\ LET q == proc[p] IN
     Goes(p, IF cfgFile = NoFile
             THEN [q EXCEPT !.pc = "truncate",
                            !.then = IF q.op.op = "set" THEN "load" ELSE "end"]
             ELSE [q EXCEPT !.pc = IF q.op.op = "set" THEN "load" ELSE "end"],
          cfgFile, bakFile)

LoadCfg(p) ==
  /\ proc[p].pc = "load"
  /\ LET q == proc[p] c == LoadConfig(cfgFile) IN
     Goes(p, IF q.op.op = "set"
             THEN [q EXCEPT !.cfg = applyConfigSet(c, q.op.field), !.pc = "truncate",
                            !.then = "end"]
             ELSE [q EXCEPT !.cfg = c, !.pc = "end"],
          cfgFile, bakFile)

\* Bug: reset empties the file before it moves it aside.
Rename_AfterTruncate(p) ==
  /\ proc[p].pc = "rename"
  /\ Goes(p, [proc[p] EXCEPT !.pc = "write"], Torn, IF cfgFile = NoFile THEN bakFile ELSE Torn)

\* os.Rename
Rename(p) ==
  /\ proc[p].pc = "rename"
  /\ Goes(p, [proc[p] EXCEPT !.pc = "truncate"], NoFile,
          IF cfgFile = NoFile THEN bakFile ELSE cfgFile)

\* Its error is ignored: reset goes on without a backup.
RenameFails(p) ==
  /\ proc[p].pc = "rename" /\ cfgFile # NoFile /\ CLIFault
  /\ proc' = [proc EXCEPT ![p].pc = "truncate"] /\ disturbed' = TRUE
  /\ UNCHANGED <<batch, cfgFile, bakFile, cfgCommands, overlapped>>

\* os.WriteFile: open with O_TRUNC, then write.
Truncate(p) ==
  /\ proc[p].pc = "truncate"
  /\ Goes(p, [proc[p] EXCEPT !.pc = "write"], Torn, bakFile)

WriteCfg(p) ==
  /\ proc[p].pc = "write"
  /\ Goes(p, [proc[p] EXCEPT !.pc = proc[p].then], Config(proc[p].cfg), bakFile)

Crash(p) ==
  /\ p \in CfgWorking /\ CLIFault
  /\ proc' = [proc EXCEPT ![p] = NoCfgCommand] /\ disturbed' = TRUE
  /\ UNCHANGED <<batch, cfgFile, bakFile, cfgCommands, overlapped>>

CfgNext == \E p \in Procs : StartCfg(p) \/ Stat(p) \/ LoadCfg(p) \/ Rename(p)
                             \/ RenameFails(p) \/ Truncate(p) \/ WriteCfg(p) \/ Crash(p)

\* NewBackend: the backend a factory configuration gives, or "error".
NewBackend(type, adapter, persistence) ==
  CASE type \in {"", "local"} -> "local"
    [] type = "onchain" -> IF adapter THEN "onchain" ELSE "error"
    [] type = "hybrid"  -> IF adapter /\ persistence THEN "hybrid" ELSE "error"
    [] type = "mock"    -> "hybrid"
    [] OTHER            -> "error"

\* buildLocalBackend gives onchain and hybrid a mock chain, and nothing a
\* persistence: the hybrid backend is never built.
buildLocalBackend(type) == NewBackend(type, type \in {"onchain", "hybrid"}, FALSE)

\* What --mode may be; none is the empty string.
ModeFlags == {"", "local", "remote"}

\* buildClient: a flag wins over the file; only "local" is the local mode, any
\* other string goes to the gateway.  A set backend is "hybrid", the default
\* one "mock".
buildClient(flag, c) ==
  IF flag = "local" \/ (flag = "" /\ c["mode"] = "default")
  THEN buildLocalBackend(IF c["backend"] = "default" THEN "mock" ELSE "hybrid")
  ELSE "remote"

CLIInit == BatchInit /\ CfgInit /\ cliFaults = 0

CLISpec == CLIInit /\ [][BatchNext \/ CfgNext]_cliVars

-----------------------------------------------------------------------------
\* When batch-register has collected everything, every row is reported once,
\* under its own number; a reported success is stored, and a stored row is
\* reported as a failure only if its answer was lost
\* (batch_register.go:106-139).
ReportIsTrue ==
  batch.status \in {"write", "done"} =>
    /\ {r.row : r \in {batch.out[k] : k \in 1..Len(batch.out)}} = 1..Len(batch.rows)
    /\ \A k \in 1..Len(batch.out) :
         batch.out[k].ok <=> batch.out[k].row \in batch.stored \ batch.unanswered

\* The semaphore bounds the registrations in flight, although it is closed
\* while goroutines still hold it (batch_register.go:108-123).
PoolBounded == Cardinality(batch.calling) <= Parallel

\* The collector counts on one result for every row: while it waits, a result
\* is in the channel or a call is still out (batch_register.go:126-127).
CollectorIsFed ==
  batch.status = "collect" => batch.results # <<>> \/ batch.calling # {}

\* Commands on the configuration file that neither overlap nor fail have the
\* effect of one atomic step each: set changes its field and no other, reset
\* leaves the defaults and the old file as the backup, and a command that
\* reads runs in the mode the file asks for (config_cmd.go:107-134).
AloneIsAtomic ==
  ~disturbed /\ ~overlapped =>
    \A p \in Procs : proc[p].pc = "end" =>
      LET q == proc[p] IN
      CASE q.op.op = "set" -> q.now = Config(applyConfigSet(LoadConfig(q.was), q.op.field))
        [] q.op.op = "use" -> \A flag \in ModeFlags :
                                buildClient(flag, q.cfg) = buildClient(flag, LoadConfig(q.was))
        [] q.op.op = "reset" -> /\ q.now = Config(DefaultConfig)
                                /\ q.bakNow = IF q.was = NoFile THEN q.bakWas ELSE q.was
        [] OTHER -> q.now.file = "yaml" /\ q.bakNow = q.bakWas

\* The backup is a whole configuration; an empty file is moved over it only
\* after a crash in the middle of a write or when two commands overlap
\* (config_cmd.go:130).
BackupIsWhole == bakFile = Torn => disturbed \/ overlapped

\* batch-register accounts for every row, within its pool, and never waits
\* for a result nobody will send.
BatchIsAccounted == ReportIsTrue /\ PoolBounded /\ CollectorIsFed

\* The configuration commands neither lose a setting nor the backup unless a
\* crash, a failed write or another command comes in between.
ConfigIsSafe == AloneIsAtomic /\ BackupIsWhole

-----------------------------------------------------------------------------
(* The inductive invariants. *)

RowResults == [row : Nat, sent : BOOLEAN, ok : BOOLEAN]

BatchTypeOK ==
  batch \in [rows : RowLists, next : Nat \ {0}, calling : SUBSET Nat, sem : SUBSET Nat,
             results : Seq(RowResults), out : Seq(RowResults),
             stored : SUBSET Nat, unanswered : SUBSET Nat,
             status : {"dispatch", "collect", "write", "done", "error", "panic"}]

\* Rows are dispatched in order; a call in flight holds the semaphore, and the
\* gateway has not answered for it.
DispatchInv ==
  /\ batch.next <= Len(batch.rows) + 1
  /\ batch.calling \subseteq batch.sem /\ batch.sem \subseteq 1..(batch.next - 1)
  /\ Cardinality(batch.sem) <= Parallel
  /\ batch.stored \subseteq 1..(batch.next - 1) /\ batch.calling \cap batch.stored = {}
  /\ batch.unanswered \subseteq batch.stored

\* A result names a row that is settled and says what became of it.
Settled(r) ==
  /\ r.row \in 1..(batch.next - 1) /\ r.row \notin batch.calling
  /\ r.ok <=> r.row \in batch.stored \ batch.unanswered

\* Every row dispatched is being called, in the channel or collected, in one
\* of the three only.
ResultsInv ==
  /\ \A k \in 1..Len(batch.results) : Settled(batch.results[k])
  /\ \A k \in 1..Len(batch.out) : Settled(batch.out[k])
  /\ \A i \in 1..(batch.next - 1) :
       \/ i \in batch.calling
       \/ \E k \in 1..Len(batch.results) : batch.results[k].row = i
       \/ \E k \in 1..Len(batch.out) : batch.out[k].row = i

CountInv == Len(batch.out) + Len(batch.results) + Cardinality(batch.calling) = batch.next - 1

StatusInv ==
  /\ batch.status = "dispatch" => batch.out = <<>>
  /\ batch.status # "dispatch" => batch.next = Len(batch.rows) + 1
  /\ batch.status = "collect" => Len(batch.out) < Len(batch.rows)
  /\ batch.status \in {"write", "done", "error"} => Len(batch.out) = Len(batch.rows)

BatchInv == BatchTypeOK /\ DispatchInv /\ ResultsInv /\ CountInv /\ StatusInv

Configs == [Fields -> {"default", "set"}]
CfgFiles == {NoFile, Torn} \cup {Config(c) : c \in Configs}

CfgRecord ==
  [op : CfgOps, was : CfgFiles, bakWas : CfgFiles, cfg : Configs, then : {"load", "end"},
   now : CfgFiles, bakNow : CfgFiles,
   pc : {"stat", "load", "rename", "truncate", "write", "end"}]

CfgTypeOK ==
  /\ cfgFile \in CfgFiles /\ bakFile \in CfgFiles
  /\ proc \in [Procs -> CfgRecord \cup {NoCfgCommand}]

\* How far a command that is alone has come, against the files it found.
Underway(q) ==
  /\ q.was # Torn
  /\ bakFile = IF q.op.op = "reset" /\ q.pc # "rename" /\ q.was # NoFile THEN q.was ELSE q.bakWas
  /\ q.pc \in {"stat", "rename"} => cfgFile = q.was
  /\ q.pc = "stat" => q.op.op \in {"set", "init"}
  /\ q.pc = "rename" => q.op.op = "reset" /\ q.cfg = DefaultConfig /\ q.then = "end"
  /\ q.pc = "load" => q.op.op \in {"set", "use"} /\ LoadConfig(cfgFile) = LoadConfig(q.was)
  /\ q.pc = "stat" => q.cfg = DefaultConfig /\ q.then = "end"
  /\ q.pc \in {"truncate", "write"} =>
       CASE q.op.op = "set" ->
              \/ q.then = "load" /\ q.cfg = LoadConfig(q.was)
              \/ q.then = "end" /\ q.cfg = applyConfigSet(LoadConfig(q.was), q.op.field)
         [] q.op.op = "reset" -> q.then = "end" /\ q.cfg = DefaultConfig
         [] OTHER -> q.then = "end" /\ q.op.op \in {"init", "force"}

\* What a command that was alone left behind.
Finished(q) ==
  CASE q.op.op = "set" -> q.now = Config(applyConfigSet(LoadConfig(q.was), q.op.field))
    [] q.op.op = "use" -> q.cfg = LoadConfig(q.was)
    [] q.op.op = "reset" -> /\ q.now = Config(DefaultConfig)
                            /\ q.bakNow = IF q.was = NoFile THEN q.bakWas ELSE q.was
    [] OTHER -> q.now.file = "yaml" /\ q.bakNow = q.bakWas

AloneInv ==
  ~disturbed /\ ~overlapped =>
    /\ bakFile # Torn
    /\ cfgFile = Torn => \E p \in CfgWorking : proc[p].pc = "write"
    /\ \A p, q \in CfgWorking : p = q
    /\ \A p \in CfgWorking : Underway(proc[p])
    /\ \A p \in Procs : proc[p].pc = "end" => Finished(proc[p])

CfgInv == CfgTypeOK /\ AloneInv
=============================================================================
