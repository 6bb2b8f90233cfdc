----------------------------- MODULE CliClient -----------------------------
(* The command line client (cli/src). Several `mg` processes of one user run *)
(* side by side: they share the stored configuration file and the directory  *)
(* outputs are saved to, and each talks to the service on its own.           *)
(*                                                                           *)
(* A process is single threaded. Everything between two awaits is one step,  *)
(* except that the configuration file is read, emptied, written and removed  *)
(* by separate system calls, so that another process, or the end of this one,*)
(* can come between them.                                                    *)
EXTENDS Integers, Sequences, FiniteSets

CONSTANTS
    CliProc,       \* the processes
    CliSessions,   \* the command lines the processes are started with
    NoKey,         \* no API key
    CliKeys,       \* API keys
    CliBaseBytes,  \* length of the line of the other settings
    CliTransient,  \* transient answers in a row that are retried (5 in poll)
    CliPatience,   \* sleeps after which poll's timeout has passed
    CliOutputs,    \* files a completed job has, all of one base name
    CliNames       \* bound: names base, 1-base, ..., in the output directory

(* A key carries for whom the browser approved it, whether the service       *)
(* accepts it, and the length of its lines, with those of the email, in the  *)
(* configuration file.                                                       *)
ASSUME CliBounds ==
    /\ CliProc # {}
    /\ CliKeys \subseteq [for: CliProc \union {"earlier"}, valid: BOOLEAN, bytes: Nat \ {0}]
    /\ CliBaseBytes \in Nat \ {0}
    /\ CliTransient \in Nat
    /\ CliPatience \in Nat
    /\ CliOutputs \in Nat
    /\ CliNames \in Nat

VARIABLES
    cliFile,   \* the configuration file, and the longest content written to it
               \* since it was last emptied
    cliDir,    \* the output directory: what each name holds
    cliJob,    \* the service: the job each process was given
    cli,       \* the processes: where each is, its command line, its key, what it
               \* posted and saw, its exit code
    cliConf,   \* login and logout: the new key, the settings read from the file,
               \* whether it has opened or written the file now at the path
    cliSent,   \* uploads: the group at work, its files on their way, those sent
    cliPoll,   \* polling: transient answers in a row, sleeps
    cliSave    \* outputs: how many are left, the names picked

cliVars == <<cliFile, cliDir, cliJob, cli, cliConf, cliSent, cliPoll, cliSave>>

Absent == <<"absent">>
UserFile == <<"user">>

CliActive == {"queued", "processing"}
CliJobStates == {"none", "completed", "failed"} \union CliActive

(* The command lines: a login or a logout saves nothing, only `mg job` names *)
(* a job, and only a login (with --no-browser) takes a pasted key.           *)
CliCommands ==
    [op: {"login", "logout", "generate", "render", "job"}, groups: Seq(Seq(STRING)),
     mode: {"detach", "wait", "save"}, dry: BOOLEAN, job: CliJobStates, paste: BOOLEAN]

ASSUME CliCommandLines == \A commands \in CliSessions :
    /\ commands \in [CliProc -> CliCommands]
    /\ \A p \in CliProc : /\ commands[p].op # "job" => commands[p].job = "none"
                          /\ commands[p].op \in {"login", "logout"} => commands[p].mode = "detach"
                          /\ commands[p].paste => commands[p].op = "login"

CliInit ==
    /\ cliFile \in [kind: {"ok"}, key: {NoKey} \union {k \in CliKeys : k.for = "earlier" /\ k.valid},
                    base: BOOLEAN, longest: {0}]
    /\ cliDir \in [0 .. CliNames -> {Absent, UserFile}]
    /\ \A n \in 1 .. CliNames : cliDir[n] = Absent
    /\ \E commands \in CliSessions :
         /\ cliJob = [p \in CliProc |-> commands[p].job]
         /\ cli = [p \in CliProc |-> [pc |-> "start", cmd |-> commands[p], key |-> NoKey, posts |-> 0,
                                      seen |-> "none", code |-> 0]]
    /\ cliConf = [p \in CliProc |-> [had |-> cliFile.base, got |-> NoKey, base |-> FALSE, torn |-> FALSE,
                                      file |-> "none"]]
    /\ cliSent = [p \in CliProc |-> [group |-> 1, flying |-> {}, cache |-> {}]]
    /\ cliPoll = [p \in CliProc |-> [transient |-> 0, sleeps |-> 0]]
    /\ cliSave = [p \in CliProc |-> [left |-> 0, name |-> 0, used |-> {}]]

(* ---------------------------------------------------------- steps of one -- *)

At(p, pc) == cli[p].pc = pc
Goes(p, pc) == cli' = [cli EXCEPT ![p].pc = pc]
Sees(p, pc, seen) == cli' = [cli EXCEPT ![p] = [@ EXCEPT !.pc = pc, !.seen = seen]]
Exits(p, code) == cli' = [cli EXCEPT ![p] = [@ EXCEPT !.pc = "exit", !.code = code]]

(* readConfig: a missing or unreadable file is an empty configuration.       *)
ReadConfig == IF cliFile.kind = "ok" THEN [key |-> cliFile.key, base |-> cliFile.base]
              ELSE [key |-> NoKey, base |-> FALSE]

(* run: the credentials are read once, before the command is dispatched.     *)
Starts(p, pc) == cli' = [cli EXCEPT ![p] = [@ EXCEPT !.pc = pc, !.key = ReadConfig.key]]

CliStart(p) ==
    LET c == cli[p].cmd
        signedIn == ReadConfig.key # NoKey
    IN
    /\ At(p, "start")
    /\ \/ c.op = "login" /\ Starts(p, "approve")
       \/ c.op = "logout" /\ Starts(p, "forget")
       \/ c.op \in {"generate", "render"} /\ c.dry /\ Starts(p, "exit")
       \/ c.op \in {"generate", "render"} /\ ~c.dry /\ signedIn /\ Starts(p, "upload")
       \/ c.op = "job" /\ signedIn /\ Starts(p, IF c.mode = "detach" THEN "look" ELSE "poll")
       \/ c.op \in {"generate", "render", "job"} /\ ~c.dry /\ ~signedIn /\ Exits(p, 1)
    /\ UNCHANGED <<cliFile, cliDir, cliJob, cliConf, cliSent, cliPoll, cliSave>>

(* startCallbackServer: a request to the callback of p. The browser page of  *)
(* login q sends the state of q; only the state of p is accepted.            *)
(* Mutant: any callback is taken.                                            *)
AnyState(p, q) == TRUE
SameState(p, q) == p = q

TakesKey(p, key) ==
    /\ At(p, "approve")
    /\ Goes(p, "verify")
    /\ cliConf' = [cliConf EXCEPT ![p].got = key]
    /\ UNCHANGED <<cliFile, cliDir, cliJob, cliSent, cliPoll, cliSave>>

Callback(p, q, key) == SameState(p, q) /\ key.for = q /\ TakesKey(p, key)

(* login --no-browser: the user pastes a key, of whatever origin, before a   *)
(* callback comes.                                                           *)
PasteKey(p, key) == cli[p].cmd.paste /\ TakesKey(p, key)

(* login: neither the callback nor the prompt produced a key in time.        *)
LoginTimesOut(p) ==
    /\ At(p, "approve")
    /\ Exits(p, 1)
    /\ UNCHANGED <<cliFile, cliDir, cliJob, cliConf, cliSent, cliPoll, cliSave>>

(* login: the key is tried against the session endpoint before it is stored, *)
(* and the configuration it will be merged into is read. The key may also be *)
(* good and the request fail.                                                *)
Accepts(key) == key.valid
Unreadable == cliFile.kind \in {"empty", "mixed"}
ReadsSettings(p) == cliConf' = [cliConf EXCEPT ![p] = [@ EXCEPT !.base = ReadConfig.base, !.torn = Unreadable]]

VerifyKey(p) ==
    /\ At(p, "verify")
    /\ \/ Accepts(cliConf[p].got) /\ Goes(p, "truncate") /\ ReadsSettings(p)
       \/ Exits(p, 1) /\ UNCHANGED cliConf
    /\ UNCHANGED <<cliFile, cliDir, cliJob, cliSent, cliPoll, cliSave>>

(* clearConfigKey: without a key nothing is written; a configuration that is *)
(* left empty is removed, any other is written back.                         *)
ForgetKey(p) ==
    /\ At(p, "forget")
    /\ \/ ReadConfig.key = NoKey /\ Exits(p, 0)
       \/ ReadConfig.key # NoKey /\ ~ReadConfig.base /\ Goes(p, "remove")
       \/ ReadConfig.key # NoKey /\ ReadConfig.base /\ Goes(p, "truncate")
    /\ ReadsSettings(p)
    /\ UNCHANGED <<cliFile, cliDir, cliJob, cliSent, cliPoll, cliSave>>

(* rmSync: whoever has the file open keeps a file that has no name.          *)
RemoveConfig(p) ==
    /\ At(p, "remove")
    /\ cliFile' = [kind |-> "absent", key |-> NoKey, base |-> FALSE, longest |-> 0]
    /\ cliConf' = [q \in CliProc |-> [cliConf[q] EXCEPT !.file = "none"]]
    /\ Exits(p, 0)
    /\ UNCHANGED <<cliDir, cliJob, cliSent, cliPoll, cliSave>>

(* writeConfig: writeFileSync opens the file, which empties it, and then     *)
(* writes from its start.                                                    *)
TruncateConfig(p) ==
    /\ At(p, "truncate")
    /\ cliFile' = [kind |-> "empty", key |-> NoKey, base |-> FALSE, longest |-> 0]
    /\ cliConf' = [cliConf EXCEPT ![p].file = "open"]
    /\ Goes(p, "fill")
    /\ UNCHANGED <<cliDir, cliJob, cliSent, cliPoll, cliSave>>

(* Mutant: the key replaces the whole file.                                  *)
KeyAlone(c) == [key |-> c.got, base |-> FALSE]
Merged(c) == [key |-> c.got, base |-> c.base]

(* The length of the JSON text with its newline.                             *)
Bytes(s) == 4 + (IF s.key = NoKey THEN 0 ELSE s.key.bytes) + (IF s.base THEN CliBaseBytes ELSE 0)

(* Text written from the start of a file that another process has filled     *)
(* meanwhile. If that text was longer its tail stays behind, and more of a   *)
(* tail than the newline makes the file unreadable.                          *)
Overwritten(s) ==
    LET tail == cliFile.longest - Bytes(s)
        longest == IF tail > 0 THEN cliFile.longest ELSE Bytes(s)
    IN IF tail <= 1 THEN [kind |-> "ok", key |-> s.key, base |-> s.base, longest |-> longest]
       ELSE [kind |-> "mixed", key |-> NoKey, base |-> FALSE, longest |-> longest]

FillConfig(p) ==
    /\ At(p, "fill")
    /\ IF cliConf[p].file = "open"
       THEN cliFile' = Overwritten(Merged(cliConf[p])) /\ cliConf' = [cliConf EXCEPT ![p].file = "written"]
       ELSE UNCHANGED <<cliFile, cliConf>>
    /\ Goes(p, "protect")
    /\ UNCHANGED <<cliDir, cliJob, cliSent, cliPoll, cliSave>>

(* chmodSync, which throws if the file has been removed meanwhile.           *)
ProtectConfig(p) ==
    /\ At(p, "protect")
    /\ Exits(p, IF cliFile.kind = "absent" THEN 1 ELSE 0)
    /\ UNCHANGED <<cliFile, cliDir, cliJob, cliConf, cliSent, cliPoll, cliSave>>

(* ----------------------------------------------------- upload and request -- *)

(* The files of the current group, by position. render goes through its      *)
(* assets one at a time: its groups have one file each (prepareTimeline).    *)
Group(p) == cli[p].cmd.groups[cliSent[p].group]

(* uploadLocal, prepareTimeline: a file whose upload has ended is taken from *)
(* the cache. The files of one group ask the cache before any of them ended. *)
ToUpload(p) == {i \in DOMAIN Group(p) : Group(p)[i] \notin cliSent[p].cache}

StartUploads(p) ==
    /\ At(p, "upload") /\ cliSent[p].group <= Len(cli[p].cmd.groups)
    /\ IF ToUpload(p) = {}
       THEN cliSent' = [cliSent EXCEPT ![p].group = @ + 1] /\ UNCHANGED cli
       ELSE cliSent' = [cliSent EXCEPT ![p].flying = ToUpload(p)] /\ Goes(p, "uploading")
    /\ UNCHANGED <<cliFile, cliDir, cliJob, cliConf, cliPoll, cliSave>>

Cached(p, i) == cliSent[p].cache \union {Group(p)[i]}

FileUploaded(p, i) ==
    /\ At(p, "uploading") /\ i \in cliSent[p].flying
    /\ \/ /\ cliSent[p].flying # {i}
          /\ cliSent' = [cliSent EXCEPT ![p] = [@ EXCEPT !.flying = cliSent[p].flying \ {i}, !.cache = Cached(p, i)]]
          /\ UNCHANGED cli
       \/ /\ cliSent[p].flying = {i}
          /\ cliSent' = [cliSent EXCEPT ![p] = [@ EXCEPT !.flying = {}, !.cache = Cached(p, i),
                                                      !.group = cliSent[p].group + 1]]
          /\ Goes(p, "upload")
       \/ Exits(p, 1) /\ UNCHANGED cliSent
    /\ UNCHANGED <<cliFile, cliDir, cliJob, cliConf, cliPoll, cliSave>>

(* generate, render: the one request that spends. It is not repeated,        *)
(* whatever the answer. settle: with no job the answer is the result; with   *)
(* one, the process reports it or waits for it.                              *)
(* Mutant: the last group is forgotten.                                      *)
UploadsAlmostDone(p) == cliSent[p].group >= Len(cli[p].cmd.groups)
UploadsDone(p) == cliSent[p].group > Len(cli[p].cmd.groups)

Posts(p, pc, seen, code) ==
    cli' = [cli EXCEPT ![p] = [@ EXCEPT !.pc = pc, !.seen = seen, !.code = code,
                                    !.posts = cli[p].posts + 1]]

Post(p) ==
    /\ At(p, "upload") /\ UploadsDone(p)
    /\ \/ /\ cliJob' = [cliJob EXCEPT ![p] = "queued"]
          /\ \/ cli[p].cmd.mode = "detach" /\ Posts(p, "exit", "none", 0)
             \/ cli[p].cmd.mode # "detach" /\ Posts(p, "poll", "none", 0)
             \/ Posts(p, "exit", "none", 1)
       \/ /\ Posts(p, "finish", "result", 0) \/ Posts(p, "exit", "none", 1)
          /\ UNCHANGED cliJob
    /\ UNCHANGED <<cliFile, cliDir, cliConf, cliSent, cliPoll, cliSave>>

(* The service works on the job.                                             *)
CliJobMoves(p) ==
    /\ cliJob[p] = "queued"
    /\ cliJob' = [cliJob EXCEPT ![p] = "processing"]
    /\ UNCHANGED <<cliFile, cliDir, cli, cliConf, cliSent, cliPoll, cliSave>>

CliJobEnds(p, s) ==
    /\ cliJob[p] = "processing"
    /\ cliJob' = [cliJob EXCEPT ![p] = s]
    /\ UNCHANGED <<cliFile, cliDir, cli, cliConf, cliSent, cliPoll, cliSave>>

(* --------------------------------------------------------------- polling -- *)

(* poll: no answer, 429 and 502 or above are transient.                      *)
PollTransient(p) ==
    /\ At(p, "poll")
    /\ \/ cliPoll[p].transient < CliTransient /\ Goes(p, "sleep")
       \/ cliPoll[p].transient >= CliTransient /\ Exits(p, 1)
    /\ cliPoll' = [cliPoll EXCEPT ![p].transient = @ + 1]
    /\ UNCHANGED <<cliFile, cliDir, cliJob, cliConf, cliSent, cliSave>>

(* poll: 401, 404, 500 and 501 end it; any other answer without a status is  *)
(* taken for a job that is not active.                                       *)
PollRefused(p) ==
    /\ At(p, "poll")
    /\ Exits(p, 1) \/ Sees(p, "finish", "unknown")
    /\ UNCHANGED <<cliFile, cliDir, cliJob, cliConf, cliSent, cliPoll, cliSave>>

(* poll: any good answer restores its patience.                              *)
Patient(p) == cliPoll[p].sleeps <= CliPatience

PollAnswer(p) ==
    /\ At(p, "poll") /\ cliJob[p] # "none"
    /\ \/ cliJob[p] \notin CliActive /\ Sees(p, "finish", cliJob[p])
       \/ cliJob[p] \in CliActive /\ ~Patient(p) /\ Exits(p, 1)
       \/ cliJob[p] \in CliActive /\ Patient(p) /\ Sees(p, "sleep", cliJob[p])
    /\ cliPoll' = [cliPoll EXCEPT ![p].transient = 0]
    /\ UNCHANGED <<cliFile, cliDir, cliJob, cliConf, cliSent, cliSave>>

(* job without --wait: one look. 401, 404 and 500 or above end it, a busy    *)
(* service and an active job are reported with what they say.                *)
LookOnce(p) ==
    /\ At(p, "look")
    /\ \/ Exits(p, 1)
       \/ Sees(p, "finish", "unknown")
       \/ cliJob[p] \in CliActive /\ Exits(p, 0)
       \/ cliJob[p] \notin CliActive /\ Sees(p, "finish", cliJob[p])
    /\ UNCHANGED <<cliFile, cliDir, cliJob, cliConf, cliSent, cliPoll, cliSave>>

Sleep(p) ==
    /\ At(p, "sleep")
    /\ Goes(p, "poll")
    /\ cliPoll' = [cliPoll EXCEPT ![p].sleeps = IF @ > CliPatience THEN @ ELSE @ + 1]
    /\ UNCHANGED <<cliFile, cliDir, cliJob, cliConf, cliSent, cliSave>>

(* --------------------------------------------------------------- outputs -- *)

(* finish: the outputs of a job or of a direct answer are downloaded first,  *)
(* then the report is printed. A job that did not complete may have outputs  *)
(* too; the process exits with 1.                                            *)
(* Mutants: a failed job is a success; there is another code for it.         *)
Worked(seen) == seen \in {"completed", "result"}
ExitZero(seen) == 0
ExitTwo(seen) == IF Worked(seen) THEN 0 ELSE 2
ExitCode(seen) == IF Worked(seen) THEN 0 ELSE 1

Finish(p) ==
    LET saves == cli[p].cmd.mode = "save" IN
    /\ At(p, "finish")
    /\ \/ saves /\ Goes(p, "pick") /\ cliSave' = [cliSave EXCEPT ![p].left = CliOutputs]
       \/ /\ ~saves \/ ~Worked(cli[p].seen)
          /\ Exits(p, ExitCode(cli[p].seen)) /\ UNCHANGED cliSave
    /\ UNCHANGED <<cliFile, cliDir, cliJob, cliConf, cliSent, cliPoll>>

(* downloadAll: the first name neither used in this run nor taken on disk.   *)
FreeNames(p) == {n \in 0 .. CliNames : n \notin cliSave[p].used /\ cliDir[n] = Absent}

PickName(p) ==
    /\ At(p, "pick")
    /\ \/ cliSave[p].left = 0 /\ Exits(p, ExitCode(cli[p].seen)) /\ UNCHANGED cliSave
       \/ /\ cliSave[p].left > 0 /\ Goes(p, "fetch")
          /\ \E n \in FreeNames(p) :
               /\ \A m \in FreeNames(p) : n <= m
               /\ cliSave' = [cliSave EXCEPT ![p] = [@ EXCEPT !.name = n, !.used = cliSave[p].used \union {n}]]
    /\ UNCHANGED <<cliFile, cliDir, cliJob, cliConf, cliSent, cliPoll>>

(* The download, and the write that fails on a name taken meanwhile.         *)
(* Mutant: a file is overwritten.                                            *)
WriteAnyway(p) == TRUE
MayWrite(p) == cliDir[cliSave[p].name] = Absent

SaveOutput(p) ==
    /\ At(p, "fetch")
    /\ \/ /\ MayWrite(p)
          /\ cliDir' = [cliDir EXCEPT ![cliSave[p].name] = <<p, cliSave[p].left>>]
          /\ cliSave' = [cliSave EXCEPT ![p].left = @ - 1]
          /\ Goes(p, "pick")
       \/ Exits(p, 1) /\ UNCHANGED <<cliDir, cliSave>>
    /\ UNCHANGED <<cliFile, cliJob, cliConf, cliSent, cliPoll>>

(* The user stops the process.                                               *)
Interrupt(p) ==
    /\ cli[p].pc \notin {"start", "exit"}
    /\ Exits(p, 130)
    /\ UNCHANGED <<cliFile, cliDir, cliJob, cliConf, cliSent, cliPoll, cliSave>>

LoginStep(p) ==
    \/ \E q \in CliProc, key \in CliKeys : Callback(p, q, key)
    \/ \E key \in CliKeys : PasteKey(p, key)
    \/ LoginTimesOut(p) \/ VerifyKey(p) \/ ForgetKey(p) \/ RemoveConfig(p)
    \/ TruncateConfig(p) \/ FillConfig(p) \/ ProtectConfig(p)

CliStep(p) ==
    \/ CliStart(p) \/ LoginStep(p)
    \/ StartUploads(p) \/ Post(p)
    \/ \E i \in cliSent[p].flying : FileUploaded(p, i)
    \/ PollTransient(p) \/ PollRefused(p) \/ PollAnswer(p) \/ LookOnce(p) \/ Sleep(p)
    \/ Finish(p) \/ PickName(p) \/ SaveOutput(p)

CliNext == \E p \in CliProc :
    \/ CliStep(p) \/ Interrupt(p)
    \/ CliJobMoves(p) \/ \E s \in {"completed", "failed"} : CliJobEnds(p, s)

(* A process keeps running: its requests are answered or fail, its timers    *)
(* fire, and a login that nobody approves times out.                         *)
CliFairness == \A p \in CliProc : WF_cliVars(CliStep(p))

CliSpec == CliInit /\ [][CliNext]_cliVars /\ CliFairness

(* ------------------------------------------------------------ properties -- *)

CliPlaces ==
    {"start", "approve", "verify", "forget", "remove", "truncate", "fill", "protect", "upload",
     "uploading", "poll", "sleep", "look", "finish", "pick", "fetch", "exit"}
CliSights == {"unknown", "result"} \union CliJobStates
CliProcess == [pc: CliPlaces, cmd: CliCommands, key: CliKeys \union {NoKey}, posts: Nat,
               seen: CliSights, code: {0, 1, 130}]

CliTypeOK ==
    /\ cliFile \in [kind: {"ok", "empty", "mixed", "absent"}, key: CliKeys \union {NoKey}, base: BOOLEAN,
                    longest: Nat]
    /\ cliDir \in [0 .. CliNames -> {Absent, UserFile} \union (CliProc \X (1 .. CliOutputs))]
    /\ cliJob \in [CliProc -> CliJobStates]
    /\ cli \in [CliProc -> CliProcess]
    /\ cliConf \in [CliProc -> [had: BOOLEAN, got: CliKeys \union {NoKey}, base: BOOLEAN, torn: BOOLEAN,
                             file: {"none", "open", "written"}]]
    /\ cliSent \in [CliProc -> [group: Nat \ {0}, flying: SUBSET Nat, cache: SUBSET STRING]]
    /\ cliPoll \in [CliProc -> [transient: Nat, sleeps: 0 .. CliPatience + 1]]
    /\ cliSave \in [CliProc -> [left: 0 .. CliOutputs, name: 0 .. CliNames, used: SUBSET (0 .. CliNames)]]

(* Whatever logins and logouts run side by side, a stored key is one the     *)
(* service accepted, and a process about to write a key holds one the service*)
(* accepted that the browser approved for that very process, unless the user *)
(* could paste another (login, startCallbackServer).                         *)
StoredKeyIsApproved ==
    /\ cliFile.key # NoKey => cliFile.key.valid
    /\ \A p \in CliProc :
         cli[p].cmd.op = "login" /\ cli[p].pc \in {"truncate", "fill"} =>
             cliConf[p].got.valid /\ (cliConf[p].got.for = p \/ cli[p].cmd.paste)

(* The other settings of the file outlive every login and logout, unless a   *)
(* process read the file when it could not be read. writeConfig is not       *)
(* atomic: the file cannot be read while a process has emptied it and not yet*)
(* written it, or was stopped there; and once two have written it side by    *)
(* side, the shorter text over the longer.                                   *)
SettingsSurvive ==
    /\ ~Unreadable /\ ~cliFile.base => \E p \in CliProc : cliConf[p].torn \/ ~cliConf[p].had
    /\ cliFile.kind = "empty" => \E p \in CliProc :
         cliConf[p].file = "open" /\ (cli[p].pc = "fill" \/ cli[p].code = 130)
    /\ cliFile.kind = "mixed" => \E p, q \in CliProc :
         p # q /\ cliConf[p].file = "written" /\ cliConf[q].file = "written"

(* A process sends the request that spends at most once, with a key, never on*)
(* a dry run, and only when every file it names has been uploaded.           *)
AllFiles(c) == UNION {{g[i] : i \in DOMAIN g} : g \in {c.groups[k] : k \in DOMAIN c.groups}}

SpendsOnce == \A p \in CliProc :
    /\ cli[p].posts <= 1
    /\ cli[p].posts = 1 =>
         /\ ~cli[p].cmd.dry /\ cli[p].key # NoKey
         /\ AllFiles(cli[p].cmd) = cliSent[p].cache

(* Exit code 0 of a command that saves means that the work completed and that*)
(* every output is on disk under a name of its own.                          *)
ZeroMeansSaved == \A p \in CliProc :
    cli[p].pc = "exit" /\ cli[p].code = 0 /\ cli[p].cmd.mode = "save" /\ ~cli[p].cmd.dry =>
        /\ cliJob[p] \in {"none", "completed"}
        /\ \A i \in 1 .. CliOutputs : \E n \in 0 .. CliNames : cliDir[n] = <<p, i>>

(* No download replaces a file, though the free name is looked up before the *)
(* download and another process may take it meanwhile (downloadAll).         *)
NothingClobbered ==
    [][\A n \in 0 .. CliNames : cliDir[n] # Absent => cliDir'[n] = cliDir[n]]_cliVars

(* Every process ends: however the service answers, and even if the job never*)
(* does.                                                                     *)
CliEnds == \A p \in CliProc : cli[p].pc # "start" ~> cli[p].pc = "exit"
=============================================================================
