--------------------------- MODULE CliClientProofs ---------------------------
(* Theorems about CliClient, for every set of processes and command lines,   *)
(* any number of files, outputs and names, and every limit of the polling.   *)
EXTENDS CliClient, TLAPS

USE CliBounds

(* --------------------------------------------------- records and updates -- *)

(* What the steps make of the record of a process, as terms the provers see  *)
(* as one.                                                                   *)
Went(r, pc) == [r EXCEPT !.pc = pc]
Saw(r, pc, seen) == [r EXCEPT !.pc = pc, !.seen = seen]
Exited(r, code) == [r EXCEPT !.pc = "exit", !.code = code]
Started(r, pc, key) == [r EXCEPT !.pc = pc, !.key = key]
Posted(r, pc, seen, code) == [r EXCEPT !.pc = pc, !.seen = seen, !.code = code, !.posts = r.posts + 1]

IsProcess(r, pc, cmd, key, posts, seen, code) ==
  /\ r \in CliProcess
  /\ r.pc = pc /\ r.cmd = cmd /\ r.key = key /\ r.posts = posts /\ r.seen = seen /\ r.code = code

(* Of the processes only p changes, into the record with these fields.       *)
Only(p, pc, key, posts, seen, code) ==
  /\ cli' \in [CliProc -> CliProcess]
  /\ \A q \in CliProc \ {p} : cli'[q] = cli[q]
  /\ IsProcess(cli'[p], pc, cli[p].cmd, key, posts, seen, code)

LEMMA WentIs ==
  ASSUME NEW r \in CliProcess, NEW pc \in CliPlaces
  PROVE  IsProcess(Went(r, pc), pc, r.cmd, r.key, r.posts, r.seen, r.code)
<1>1. Went(r, pc) \in CliProcess
  BY DEF CliProcess, Went
<1> QED
  BY <1>1 DEF CliProcess, IsProcess, Went

LEMMA SawIs ==
  ASSUME NEW r \in CliProcess, NEW pc \in CliPlaces, NEW seen \in CliSights
  PROVE  IsProcess(Saw(r, pc, seen), pc, r.cmd, r.key, r.posts, seen, r.code)
<1>1. Saw(r, pc, seen) \in CliProcess
  BY DEF CliProcess, Saw
<1> QED
  BY <1>1 DEF CliProcess, IsProcess, Saw

LEMMA ExitedIs ==
  ASSUME NEW r \in CliProcess, NEW code \in {0, 1, 130}
  PROVE  IsProcess(Exited(r, code), "exit", r.cmd, r.key, r.posts, r.seen, code)
<1>1. Exited(r, code) \in CliProcess
  BY DEF CliProcess, CliPlaces, Exited
<1> QED
  BY <1>1 DEF CliProcess, IsProcess, Exited

LEMMA StartedIs ==
  ASSUME NEW r \in CliProcess, NEW pc \in CliPlaces, NEW key \in CliKeys \union {NoKey}
  PROVE  IsProcess(Started(r, pc, key), pc, r.cmd, key, r.posts, r.seen, r.code)
<1>1. Started(r, pc, key) \in CliProcess
  BY DEF CliProcess, Started
<1> QED
  BY <1>1 DEF CliProcess, IsProcess, Started

LEMMA PostedIs ==
  ASSUME NEW r \in CliProcess, NEW pc \in CliPlaces, NEW seen \in CliSights, NEW code \in {0, 1, 130}
  PROVE  IsProcess(Posted(r, pc, seen, code), pc, r.cmd, r.key, r.posts + 1, seen, code)
<1>1. r.posts + 1 \in Nat
  BY DEF CliProcess
<1>2. Posted(r, pc, seen, code) = [r EXCEPT !.pc = pc, !.seen = seen, !.code = code, !.posts = r.posts + 1]
  BY DEF Posted
<1>3. [r EXCEPT !.pc = pc, !.seen = seen, !.code = code, !.posts = r.posts + 1] \in CliProcess
  BY <1>1 DEF CliProcess
<1>4. Posted(r, pc, seen, code) \in CliProcess
  BY <1>2, <1>3
<1> QED
  BY <1>4 DEF CliProcess, IsProcess, Posted

LEMMA GoesOnly ==
  ASSUME cli \in [CliProc -> CliProcess], NEW p \in CliProc, NEW pc \in CliPlaces, Goes(p, pc)
  PROVE  Only(p, pc, cli[p].key, cli[p].posts, cli[p].seen, cli[p].code)
<1>1. cli' = [cli EXCEPT ![p] = Went(cli[p], pc)]
  BY DEF Goes, Went
<1>2. cli[p] \in CliProcess
  OBVIOUS
<1>3. IsProcess(Went(cli[p], pc), pc, cli[p].cmd, cli[p].key, cli[p].posts, cli[p].seen, cli[p].code)
  BY <1>2, WentIs
<1> QED
  BY <1>1, <1>3 DEF Only, IsProcess

LEMMA SeesOnly ==
  ASSUME cli \in [CliProc -> CliProcess], NEW p \in CliProc, NEW pc \in CliPlaces,
         NEW seen \in CliSights, Sees(p, pc, seen)
  PROVE  Only(p, pc, cli[p].key, cli[p].posts, seen, cli[p].code)
<1>1. cli' = [cli EXCEPT ![p] = Saw(cli[p], pc, seen)]
  BY DEF Sees, Saw
<1>2. cli[p] \in CliProcess
  OBVIOUS
<1>3. IsProcess(Saw(cli[p], pc, seen), pc, cli[p].cmd, cli[p].key, cli[p].posts, seen, cli[p].code)
  BY <1>2, SawIs
<1> QED
  BY <1>1, <1>3 DEF Only, IsProcess

LEMMA ExitsOnly ==
  ASSUME cli \in [CliProc -> CliProcess], NEW p \in CliProc, NEW code \in {0, 1, 130}, Exits(p, code)
  PROVE  Only(p, "exit", cli[p].key, cli[p].posts, cli[p].seen, code)
<1>1. cli' = [cli EXCEPT ![p] = Exited(cli[p], code)]
  BY DEF Exits, Exited
<1>2. cli[p] \in CliProcess
  OBVIOUS
<1>3. IsProcess(Exited(cli[p], code), "exit", cli[p].cmd, cli[p].key, cli[p].posts, cli[p].seen, code)
  BY <1>2, ExitedIs
<1> QED
  BY <1>1, <1>3 DEF Only, IsProcess

LEMMA StartsOnly ==
  ASSUME cli \in [CliProc -> CliProcess], NEW p \in CliProc, NEW pc \in CliPlaces,
         ReadConfig.key \in CliKeys \union {NoKey}, Starts(p, pc)
  PROVE  Only(p, pc, ReadConfig.key, cli[p].posts, cli[p].seen, cli[p].code)
<1>1. cli' = [cli EXCEPT ![p] = Started(cli[p], pc, ReadConfig.key)]
  BY DEF Starts, Started
<1>2. cli[p] \in CliProcess
  OBVIOUS
<1>3. IsProcess(Started(cli[p], pc, ReadConfig.key), pc, cli[p].cmd, ReadConfig.key,
                cli[p].posts, cli[p].seen, cli[p].code)
  BY <1>2, StartedIs
<1> QED
  BY <1>1, <1>3 DEF Only, IsProcess

LEMMA PostsOnly ==
  ASSUME cli \in [CliProc -> CliProcess], NEW p \in CliProc, NEW pc \in CliPlaces,
         NEW seen \in CliSights, NEW code \in {0, 1, 130}, Posts(p, pc, seen, code)
  PROVE  Only(p, pc, cli[p].key, cli[p].posts + 1, seen, code)
<1>1. cli' = [cli EXCEPT ![p] = Posted(cli[p], pc, seen, code)]
  BY DEF Posts, Posted
<1>2. cli[p] \in CliProcess
  OBVIOUS
<1>3. IsProcess(Posted(cli[p], pc, seen, code), pc, cli[p].cmd, cli[p].key, cli[p].posts + 1, seen, code)
  BY <1>2, PostedIs
<1> QED
  BY <1>1, <1>3 DEF Only, IsProcess

(* The other records, likewise.                                              *)
ConfType == [had: BOOLEAN, got: CliKeys \union {NoKey}, base: BOOLEAN, torn: BOOLEAN,
             file: {"none", "open", "written"}]
SentType == [group: Nat \ {0}, flying: SUBSET Nat, cache: SUBSET STRING]
PollType == [transient: Nat, sleeps: 0 .. CliPatience + 1]
SaveType == [left: 0 .. CliOutputs, name: 0 .. CliNames, used: SUBSET (0 .. CliNames)]

IsConf(r, had, got, base, torn, file) ==
  r \in ConfType /\ r.had = had /\ r.got = got /\ r.base = base /\ r.torn = torn /\ r.file = file
IsSent(r, group, flying, cache) ==
  r \in SentType /\ r.group = group /\ r.flying = flying /\ r.cache = cache
IsSave(r, left, name, used) ==
  r \in SaveType /\ r.left = left /\ r.name = name /\ r.used = used

Got(r, key) == [r EXCEPT !.got = key]
Read(r, base, torn) == [r EXCEPT !.base = base, !.torn = torn]
Holding(r, file) == [r EXCEPT !.file = file]
Sent(r, flying, cache) == [r EXCEPT !.flying = flying, !.cache = cache]
SentAll(r, cache, group) == [r EXCEPT !.flying = {}, !.cache = cache, !.group = group]
Flies(r, flying) == [r EXCEPT !.flying = flying]
NextGroup(r, group) == [r EXCEPT !.group = group]
LeftIs(r, left) == [r EXCEPT !.left = left]
Named(r, name, used) == [r EXCEPT !.name = name, !.used = used]

LEMMA ConfIs ==
  ASSUME NEW r \in ConfType, NEW key \in CliKeys \union {NoKey}, NEW base \in BOOLEAN, NEW torn \in BOOLEAN,
         NEW file \in {"none", "open", "written"}
  PROVE  /\ IsConf(Got(r, key), r.had, key, r.base, r.torn, r.file)
         /\ IsConf(Read(r, base, torn), r.had, r.got, base, torn, r.file)
         /\ IsConf(Holding(r, file), r.had, r.got, r.base, r.torn, file)
<1>1. Got(r, key) \in ConfType /\ Read(r, base, torn) \in ConfType
  BY DEF ConfType, Got, Read
<1>2. Holding(r, file) \in ConfType
  BY DEF ConfType, Holding
<1>3. IsConf(Holding(r, file), r.had, r.got, r.base, r.torn, file)
  BY <1>2 DEF ConfType, IsConf, Holding
<1> QED
  BY <1>1, <1>3 DEF ConfType, IsConf, Got, Read

LEMMA SentIs ==
  ASSUME NEW r \in SentType, NEW group \in Nat \ {0}, NEW flying \in SUBSET Nat, NEW cache \in SUBSET STRING
  PROVE  /\ IsSent(Sent(r, flying, cache), r.group, flying, cache)
         /\ IsSent(SentAll(r, cache, group), group, {}, cache)
         /\ IsSent(Flies(r, flying), r.group, flying, r.cache)
         /\ IsSent(NextGroup(r, group), group, r.flying, r.cache)
<1>1. Sent(r, flying, cache) \in SentType
  BY DEF SentType, Sent
<1>2. SentAll(r, cache, group) \in SentType
  BY DEF SentType, SentAll
<1>3. Flies(r, flying) \in SentType /\ NextGroup(r, group) \in SentType
  BY DEF SentType, Flies, NextGroup
<1>4. IsSent(Sent(r, flying, cache), r.group, flying, cache)
  BY <1>1 DEF SentType, IsSent, Sent
<1>5. IsSent(SentAll(r, cache, group), group, {}, cache)
  BY <1>2 DEF SentType, IsSent, SentAll
<1>6. IsSent(Flies(r, flying), r.group, flying, r.cache)
  BY <1>3 DEF SentType, IsSent, Flies
<1>7. IsSent(NextGroup(r, group), group, r.flying, r.cache)
  BY <1>3 DEF SentType, IsSent, NextGroup
<1> QED
  BY <1>4, <1>5, <1>6, <1>7

LEMMA SaveIs ==
  ASSUME NEW r \in SaveType, NEW left \in 0 .. CliOutputs, NEW name \in 0 .. CliNames,
         NEW used \in SUBSET (0 .. CliNames)
  PROVE  /\ IsSave(LeftIs(r, left), left, r.name, r.used)
         /\ IsSave(Named(r, name, used), r.left, name, used)
<1>1. LeftIs(r, left) \in SaveType /\ Named(r, name, used) \in SaveType
  BY DEF SaveType, LeftIs, Named
<1> QED
  BY <1>1 DEF SaveType, IsSave, LeftIs, Named

LEMMA TypeRecords ==
  ASSUME CliTypeOK
  PROVE  /\ cli \in [CliProc -> CliProcess]
         /\ cliConf \in [CliProc -> ConfType]
         /\ cliSent \in [CliProc -> SentType]
         /\ cliPoll \in [CliProc -> PollType]
         /\ cliSave \in [CliProc -> SaveType]
         /\ ReadConfig.key \in CliKeys \union {NoKey}
         /\ ReadConfig.base \in BOOLEAN
<1>1. ReadConfig.key \in CliKeys \union {NoKey} /\ ReadConfig.base \in BOOLEAN
  BY DEF CliTypeOK, ReadConfig
<1> QED
  BY <1>1 DEF CliTypeOK, ConfType, SentType, PollType, SaveType

(* Of the settings the processes have read only those of p change, into the  *)
(* record with these fields.                                                 *)
ConfOnly(p, got, base, torn, file) ==
  /\ cliConf' \in [CliProc -> ConfType]
  /\ \A o \in CliProc \ {p} : cliConf'[o] = cliConf[o]
  /\ IsConf(cliConf'[p], cliConf[p].had, got, base, torn, file)

LEMMA TakesKeyConf ==
  ASSUME CliTypeOK, NEW p \in CliProc, NEW key \in CliKeys, TakesKey(p, key)
  PROVE  ConfOnly(p, key, cliConf[p].base, cliConf[p].torn, cliConf[p].file)
<1>1. cliConf' = [cliConf EXCEPT ![p] = Got(cliConf[p], key)]
  BY DEF TakesKey, Got
<1>2. cliConf \in [CliProc -> ConfType]
  BY TypeRecords
<1>3. cliConf[p] \in ConfType
  BY <1>2
<1>4. IsConf(Got(cliConf[p], key), cliConf[p].had, key, cliConf[p].base, cliConf[p].torn, cliConf[p].file)
  BY <1>3, ConfIs
<1> QED
  BY <1>1, <1>2, <1>4 DEF ConfOnly, IsConf

LEMMA ReadsConf ==
  ASSUME CliTypeOK, NEW p \in CliProc, ReadsSettings(p)
  PROVE  ConfOnly(p, cliConf[p].got, ReadConfig.base, Unreadable, cliConf[p].file)
<1>1. Unreadable \in BOOLEAN
  BY DEF Unreadable
<1>2. cliConf' = [cliConf EXCEPT ![p] = Read(cliConf[p], ReadConfig.base, Unreadable)]
  BY DEF ReadsSettings, Read
<1>3. cliConf \in [CliProc -> ConfType] /\ ReadConfig.base \in BOOLEAN
  BY TypeRecords
<1>4. cliConf[p] \in ConfType
  BY <1>3
<1>5. IsConf(Read(cliConf[p], ReadConfig.base, Unreadable), cliConf[p].had, cliConf[p].got,
             ReadConfig.base, Unreadable, cliConf[p].file)
  BY <1>1, <1>3, <1>4, ConfIs
<1> QED
  BY <1>2, <1>3, <1>5 DEF ConfOnly, IsConf

LEMMA HoldsConf ==
  ASSUME CliTypeOK, NEW p \in CliProc, NEW file \in {"none", "open", "written"},
         cliConf' = [cliConf EXCEPT ![p].file = file]
  PROVE  ConfOnly(p, cliConf[p].got, cliConf[p].base, cliConf[p].torn, file)
<1>1. cliConf' = [cliConf EXCEPT ![p] = Holding(cliConf[p], file)]
  BY DEF Holding
<1>2. cliConf \in [CliProc -> ConfType]
  BY TypeRecords
<1>3. cliConf[p] \in ConfType
  BY <1>2
<1>4. IsConf(Holding(cliConf[p], file), cliConf[p].had, cliConf[p].got, cliConf[p].base, cliConf[p].torn, file)
  BY <1>3, ConfIs
<1> QED
  BY <1>1, <1>2, <1>4 DEF ConfOnly, IsConf

LEMMA RemovesConf ==
  ASSUME CliTypeOK, NEW p \in CliProc, RemoveConfig(p)
  PROVE  /\ cliConf' \in [CliProc -> ConfType]
         /\ \A o \in CliProc : IsConf(cliConf'[o], cliConf[o].had, cliConf[o].got, cliConf[o].base, cliConf[o].torn, "none")
<1>1. cliConf' = [o \in CliProc |-> Holding(cliConf[o], "none")]
  BY DEF RemoveConfig, Holding
<1>2. \A o \in CliProc : IsConf(Holding(cliConf[o], "none"), cliConf[o].had, cliConf[o].got, cliConf[o].base,
                                cliConf[o].torn, "none")
  BY TypeRecords, ConfIs
<1> QED
  BY <1>1, <1>2 DEF IsConf

(* -------------------------------------------------- logins and logouts -- *)

LoginPlaces == {"verify", "remove", "truncate", "fill", "protect"}

(* A step of a login or a logout touches the file and what is known of it,   *)
(* and nothing else.                                                         *)
LEMMA LoginMoves ==
  ASSUME NEW p \in CliProc, LoginStep(p)
  PROVE  /\ \E pc \in LoginPlaces, code \in {0, 1} : Goes(p, pc) \/ Exits(p, code)
         /\ UNCHANGED <<cliDir, cliJob, cliSent, cliPoll, cliSave>>
         /\ cli[p].pc \in {"approve", "forget"} \union LoginPlaces
<1>1. CASE \E key : TakesKey(p, key)
  BY <1>1 DEF TakesKey, At, LoginPlaces
<1>2. CASE LoginTimesOut(p) \/ VerifyKey(p) \/ ForgetKey(p)
  BY <1>2 DEF LoginTimesOut, VerifyKey, ForgetKey, At, LoginPlaces
<1>3. CASE RemoveConfig(p) \/ TruncateConfig(p) \/ FillConfig(p) \/ ProtectConfig(p)
  BY <1>3 DEF RemoveConfig, TruncateConfig, FillConfig, ProtectConfig, At, LoginPlaces
<1> QED
  BY <1>1, <1>2, <1>3 DEF LoginStep, Callback, PasteKey

LEMMA LoginConf ==
  ASSUME CliTypeOK, NEW p \in CliProc, LoginStep(p)
  PROVE  cliConf' \in [CliProc -> ConfType]
<1>1. CASE cliConf' = cliConf
  BY <1>1, TypeRecords
<1>2. CASE \E key \in CliKeys : TakesKey(p, key)
  BY <1>2, TakesKeyConf DEF ConfOnly
<1>3. CASE ReadsSettings(p)
  BY <1>3, ReadsConf DEF ConfOnly
<1>4. CASE RemoveConfig(p)
  BY <1>4, RemovesConf
<1>5. CASE \E file \in {"open", "written"} : cliConf' = [cliConf EXCEPT ![p].file = file]
  BY <1>5, HoldsConf DEF ConfOnly
<1>6. CASE LoginTimesOut(p) \/ VerifyKey(p) \/ ForgetKey(p)
  BY <1>1, <1>3, <1>6 DEF LoginTimesOut, VerifyKey, ForgetKey
<1>7. CASE TruncateConfig(p) \/ FillConfig(p) \/ ProtectConfig(p)
  BY <1>1, <1>5, <1>7 DEF TruncateConfig, FillConfig, ProtectConfig
<1> QED
  BY <1>2, <1>4, <1>6, <1>7 DEF LoginStep, Callback, PasteKey

FileType == [kind: {"ok", "empty", "mixed", "absent"}, key: CliKeys \union {NoKey}, base: BOOLEAN, longest: Nat]

(* The length of a text is that of its braces and newlines at least.         *)
LEMMA BytesNat ==
  ASSUME NEW s, s.key \in CliKeys \union {NoKey}
  PROVE  Bytes(s) \in Nat /\ Bytes(s) >= 4
<1>1. (IF s.key = NoKey THEN 0 ELSE s.key.bytes) \in Nat
  OBVIOUS
<1>2. (IF s.base THEN CliBaseBytes ELSE 0) \in Nat
  OBVIOUS
<1> QED
  BY <1>1, <1>2 DEF Bytes

(* Writing leaves the text written, unless it is shorter by more than a      *)
(* newline than what has been written before.                                *)
LEMMA OverwrittenIs ==
  ASSUME NEW s, s.key \in CliKeys \union {NoKey}, s.base \in BOOLEAN, cliFile.longest \in Nat
  PROVE  /\ Overwritten(s) \in FileType
         /\ \/ /\ Overwritten(s).kind = "ok" /\ Overwritten(s).key = s.key
               /\ Overwritten(s).base = s.base
            \/ /\ Overwritten(s).kind = "mixed" /\ Overwritten(s).key = NoKey
               /\ cliFile.longest > 0
<1> DEFINE tail == cliFile.longest - Bytes(s)
           longest == IF tail > 0 THEN cliFile.longest ELSE Bytes(s)
           text == [kind |-> "ok", key |-> s.key, base |-> s.base, longest |-> longest]
           mix == [kind |-> "mixed", key |-> NoKey, base |-> FALSE, longest |-> longest]
<1>1. Bytes(s) \in Nat /\ Bytes(s) >= 4
  BY BytesNat
<1>2. longest \in Nat /\ (tail > 1 => cliFile.longest > 0)
  BY <1>1
<1>3. Overwritten(s) = IF tail <= 1 THEN text ELSE mix
  BY DEF Overwritten
<1> HIDE DEF longest
<1>4. text \in FileType /\ mix \in FileType
  BY <1>2 DEF FileType
<1>5. text.kind = "ok" /\ text.key = s.key /\ text.base = s.base /\ mix.kind = "mixed" /\ mix.key = NoKey
  OBVIOUS
<1>6. tail \in Int
  BY <1>1
<1> HIDE DEF tail, text, mix
<1> QED
  BY <1>2, <1>3, <1>4, <1>5, <1>6

LEMMA LoginFile ==
  ASSUME CliTypeOK, NEW p \in CliProc, LoginStep(p)
  PROVE  cliFile' \in FileType
<1>1. cliFile \in FileType /\ cliConf[p] \in ConfType
  BY TypeRecords DEF CliTypeOK, FileType
<1>2. CASE cliFile' = cliFile
  BY <1>1, <1>2
<1>3. CASE cliFile' = [kind |-> "empty", key |-> NoKey, base |-> FALSE, longest |-> 0]
  BY <1>3 DEF FileType
<1>4. CASE cliFile' = [kind |-> "absent", key |-> NoKey, base |-> FALSE, longest |-> 0]
  BY <1>4 DEF FileType
<1>5. CASE cliFile' = Overwritten(Merged(cliConf[p]))
  <2>1. Merged(cliConf[p]).key \in CliKeys \union {NoKey} /\ Merged(cliConf[p]).base \in BOOLEAN
    BY <1>1 DEF ConfType, Merged
  <2>2. cliFile.longest \in Nat
    BY <1>1 DEF FileType
  <2> QED
    BY <1>5, <2>1, <2>2, OverwrittenIs
<1>6. CASE \E key : TakesKey(p, key)
  BY <1>2, <1>6 DEF TakesKey
<1>7. CASE LoginTimesOut(p) \/ VerifyKey(p) \/ ForgetKey(p) \/ ProtectConfig(p)
  BY <1>2, <1>7 DEF LoginTimesOut, VerifyKey, ForgetKey, ProtectConfig
<1>8. CASE RemoveConfig(p) \/ TruncateConfig(p)
  BY <1>3, <1>4, <1>8 DEF RemoveConfig, TruncateConfig
<1>9. CASE FillConfig(p)
  BY <1>2, <1>5, <1>9 DEF FillConfig
<1> QED
  BY <1>6, <1>7, <1>8, <1>9 DEF LoginStep, Callback, PasteKey

(* ----------------------------------------------- types, and two positions -- *)

(* Types alone are not inductive: what an upload sends has to be a file of a *)
(* group, and an output that is fetched one that is left.                    *)
FlyingOf(p) ==
  cli[p].pc = "uploading" =>
      /\ cliSent[p].group \in DOMAIN cli[p].cmd.groups
      /\ cliSent[p].flying \subseteq DOMAIN Group(p)
Fetching(p) == cli[p].pc = "fetch" => cliSave[p].left > 0

TInv == CliTypeOK /\ \A p \in CliProc : FlyingOf(p) /\ Fetching(p)

SentOnly(p, group, flying, cache) ==
  /\ cliSent' \in [CliProc -> SentType]
  /\ \A q \in CliProc \ {p} : cliSent'[q] = cliSent[q]
  /\ IsSent(cliSent'[p], group, flying, cache)

SaveOnly(p, left, name, used) ==
  /\ cliSave' \in [CliProc -> SaveType]
  /\ \A q \in CliProc \ {p} : cliSave'[q] = cliSave[q]
  /\ IsSave(cliSave'[p], left, name, used)

LEMMA GroupType ==
  ASSUME CliTypeOK, NEW p \in CliProc, cliSent[p].group \in DOMAIN cli[p].cmd.groups
  PROVE  Group(p) \in Seq(STRING)
<1>1. cli[p] \in CliProcess
  BY DEF CliTypeOK
<1>2. cli[p].cmd \in CliCommands
  BY <1>1 DEF CliProcess
<1>3. cli[p].cmd.groups \in Seq(Seq(STRING))
  BY <1>2 DEF CliCommands
<1> QED
  BY <1>3 DEF Group

LEMMA StartUploadsSent ==
  ASSUME CliTypeOK, NEW p \in CliProc, StartUploads(p)
  PROVE  /\ cliSent[p].group \in DOMAIN cli[p].cmd.groups
         /\ \/ /\ ToUpload(p) = {} /\ cli' = cli
               /\ SentOnly(p, cliSent[p].group + 1, cliSent[p].flying, cliSent[p].cache)
            \/ /\ Goes(p, "uploading")
               /\ SentOnly(p, cliSent[p].group, ToUpload(p), cliSent[p].cache)
<1>1. cliSent \in [CliProc -> SentType] /\ cli \in [CliProc -> CliProcess]
  BY TypeRecords
<1>2. cliSent[p] \in SentType /\ cli[p] \in CliProcess
  BY <1>1
<1>3. cliSent[p].group \in Nat \ {0} /\ cli[p].cmd \in CliCommands
  BY <1>2 DEF SentType, CliProcess
<1>4. cliSent[p].group \in DOMAIN cli[p].cmd.groups
  <2>1. cli[p].cmd.groups \in Seq(Seq(STRING))
    BY <1>3 DEF CliCommands
  <2> QED
    BY <1>3, <2>1 DEF StartUploads
<1>5. ToUpload(p) \in SUBSET Nat
  BY <1>4, GroupType DEF ToUpload
<1>6. cliSent[p].group + 1 \in Nat \ {0}
  BY <1>3
<1>7. CASE ToUpload(p) = {}
  <2>1. cliSent' = [cliSent EXCEPT ![p] = NextGroup(cliSent[p], cliSent[p].group + 1)] /\ cli' = cli
    BY <1>7 DEF StartUploads, NextGroup
  <2>2. IsSent(NextGroup(cliSent[p], cliSent[p].group + 1), cliSent[p].group + 1, cliSent[p].flying, cliSent[p].cache)
    BY <1>2, <1>5, <1>6, SentIs
  <2>3. SentOnly(p, cliSent[p].group + 1, cliSent[p].flying, cliSent[p].cache)
    BY <1>1, <2>1, <2>2 DEF SentOnly, IsSent
  <2> QED
    BY <1>4, <1>7, <2>1, <2>3
<1>8. CASE ToUpload(p) # {}
  <2>1. cliSent' = [cliSent EXCEPT ![p] = Flies(cliSent[p], ToUpload(p))] /\ Goes(p, "uploading")
    BY <1>8 DEF StartUploads, Flies
  <2>2. IsSent(Flies(cliSent[p], ToUpload(p)), cliSent[p].group, ToUpload(p), cliSent[p].cache)
    BY <1>2, <1>5, <1>6, SentIs
  <2>3. SentOnly(p, cliSent[p].group, ToUpload(p), cliSent[p].cache)
    BY <1>1, <2>1, <2>2 DEF SentOnly, IsSent
  <2> QED
    BY <1>4, <2>1, <2>3
<1> QED
  BY <1>7, <1>8

LEMMA FileUploadedSent ==
  ASSUME CliTypeOK, NEW p \in CliProc, FlyingOf(p), NEW i, FileUploaded(p, i)
  PROVE  \/ /\ cli' = cli
            /\ SentOnly(p, cliSent[p].group, cliSent[p].flying \ {i}, cliSent[p].cache \union {Group(p)[i]})
         \/ /\ Goes(p, "upload") /\ cliSent[p].flying = {i}
            /\ SentOnly(p, cliSent[p].group + 1, {}, cliSent[p].cache \union {Group(p)[i]})
         \/ Exits(p, 1) /\ cliSent' = cliSent
<1>1. cliSent \in [CliProc -> SentType]
  BY TypeRecords
<1>2. cliSent[p] \in SentType
  BY <1>1
<1>3. cliSent[p].group \in DOMAIN cli[p].cmd.groups /\ i \in DOMAIN Group(p)
  BY DEF FileUploaded, FlyingOf, At
<1>4. Group(p)[i] \in STRING
  BY <1>3, GroupType
<1>5. /\ cliSent[p].flying \ {i} \in SUBSET Nat
      /\ Cached(p, i) \in SUBSET STRING
      /\ cliSent[p].group + 1 \in Nat \ {0}
  BY <1>2, <1>4 DEF SentType, Cached
<1>6. CASE /\ cliSent' = [cliSent EXCEPT ![p] = Sent(cliSent[p], cliSent[p].flying \ {i}, Cached(p, i))]
           /\ cli' = cli
  <2>1. IsSent(Sent(cliSent[p], cliSent[p].flying \ {i}, Cached(p, i)),
               cliSent[p].group, cliSent[p].flying \ {i}, Cached(p, i))
    BY <1>2, <1>5, SentIs
  <2> QED
    BY <1>1, <1>6, <2>1 DEF SentOnly, IsSent, Cached
<1>7. CASE /\ cliSent' = [cliSent EXCEPT ![p] = SentAll(cliSent[p], Cached(p, i), cliSent[p].group + 1)]
           /\ Goes(p, "upload") /\ cliSent[p].flying = {i}
  <2>1. IsSent(SentAll(cliSent[p], Cached(p, i), cliSent[p].group + 1), cliSent[p].group + 1, {}, Cached(p, i))
    BY <1>2, <1>5, SentIs
  <2> QED
    BY <1>1, <1>7, <2>1 DEF SentOnly, IsSent, Cached
<1> QED
  BY <1>6, <1>7 DEF FileUploaded, Sent, SentAll

LEMMA FinishSave ==
  ASSUME CliTypeOK, NEW p \in CliProc, Finish(p)
  PROVE  \/ /\ cli[p].cmd.mode = "save" /\ Goes(p, "pick")
            /\ SaveOnly(p, CliOutputs, cliSave[p].name, cliSave[p].used)
         \/ /\ cli[p].cmd.mode # "save" \/ ~Worked(cli[p].seen)
            /\ Exits(p, ExitCode(cli[p].seen)) /\ cliSave' = cliSave
<1>1. cliSave \in [CliProc -> SaveType]
  BY TypeRecords
<1>2. cliSave[p] \in SaveType
  BY <1>1
<1>3. CliOutputs \in 0 .. CliOutputs /\ cliSave[p].name \in 0 .. CliNames /\ cliSave[p].used \in SUBSET (0 .. CliNames)
  BY <1>2 DEF SaveType
<1>4. CASE /\ cli[p].cmd.mode = "save" /\ Goes(p, "pick")
           /\ cliSave' = [cliSave EXCEPT ![p] = LeftIs(cliSave[p], CliOutputs)]
  <2>1. IsSave(LeftIs(cliSave[p], CliOutputs), CliOutputs, cliSave[p].name, cliSave[p].used)
    BY <1>2, <1>3, SaveIs
  <2> QED
    BY <1>1, <1>4, <2>1 DEF SaveOnly, IsSave
<1> QED
  BY <1>4 DEF Finish, LeftIs

LEMMA PickNameSave ==
  ASSUME CliTypeOK, NEW p \in CliProc, PickName(p)
  PROVE  \/ cliSave[p].left = 0 /\ Exits(p, ExitCode(cli[p].seen)) /\ cliSave' = cliSave
         \/ /\ cliSave[p].left > 0 /\ Goes(p, "fetch")
            /\ \E n \in FreeNames(p) : SaveOnly(p, cliSave[p].left, n, cliSave[p].used \union {n})
<1>1. cliSave \in [CliProc -> SaveType]
  BY TypeRecords
<1>2. cliSave[p] \in SaveType
  BY <1>1
<1>3. CASE /\ cliSave[p].left > 0 /\ Goes(p, "fetch")
           /\ \E n \in FreeNames(p) :
                cliSave' = [cliSave EXCEPT ![p] = Named(cliSave[p], n, cliSave[p].used \union {n})]
  <2>1. PICK n \in FreeNames(p) :
          cliSave' = [cliSave EXCEPT ![p] = Named(cliSave[p], n, cliSave[p].used \union {n})]
    BY <1>3
  <2>2. n \in 0 .. CliNames /\ cliSave[p].used \union {n} \in SUBSET (0 .. CliNames) /\ cliSave[p].left \in 0 .. CliOutputs
    BY <1>2 DEF FreeNames, SaveType
  <2>3. IsSave(Named(cliSave[p], n, cliSave[p].used \union {n}), cliSave[p].left, n, cliSave[p].used \union {n})
    BY <1>2, <2>2, SaveIs
  <2>4. SaveOnly(p, cliSave[p].left, n, cliSave[p].used \union {n})
    BY <1>1, <2>1, <2>3 DEF SaveOnly, IsSave
  <2> QED
    BY <1>3, <2>4
<1> QED
  BY <1>3 DEF PickName, Named

LEMMA SaveOutputSave ==
  ASSUME CliTypeOK, NEW p \in CliProc, Fetching(p), SaveOutput(p)
  PROVE  \/ /\ cliDir[cliSave[p].name] = Absent /\ Goes(p, "pick")
            /\ cliDir' = [cliDir EXCEPT ![cliSave[p].name] = <<p, cliSave[p].left>>]
            /\ SaveOnly(p, cliSave[p].left - 1, cliSave[p].name, cliSave[p].used)
         \/ Exits(p, 1) /\ cliSave' = cliSave /\ cliDir' = cliDir
<1>1. cliSave \in [CliProc -> SaveType]
  BY TypeRecords
<1>2. cliSave[p] \in SaveType /\ cliSave[p].left > 0
  BY <1>1 DEF SaveOutput, Fetching, At
<1>3. /\ cliSave[p].left - 1 \in 0 .. CliOutputs /\ cliSave[p].name \in 0 .. CliNames
      /\ cliSave[p].used \in SUBSET (0 .. CliNames)
  BY <1>2 DEF SaveType
<1>4. CASE /\ MayWrite(p) /\ Goes(p, "pick")
           /\ cliDir' = [cliDir EXCEPT ![cliSave[p].name] = <<p, cliSave[p].left>>]
           /\ cliSave' = [cliSave EXCEPT ![p] = LeftIs(cliSave[p], cliSave[p].left - 1)]
  <2>1. IsSave(LeftIs(cliSave[p], cliSave[p].left - 1), cliSave[p].left - 1, cliSave[p].name, cliSave[p].used)
    BY <1>2, <1>3, SaveIs
  <2>2. SaveOnly(p, cliSave[p].left - 1, cliSave[p].name, cliSave[p].used)
    BY <1>1, <1>4, <2>1 DEF SaveOnly, IsSave
  <2> QED
    BY <1>4, <2>2 DEF MayWrite
<1> QED
  BY <1>4 DEF SaveOutput, LeftIs

LEMMA Elsewhere ==
  ASSUME TInv, NEW p \in CliProc,
         \A q \in CliProc \ {p} : cli'[q] = cli[q] /\ cliSent'[q] = cliSent[q] /\ cliSave'[q] = cliSave[q],
         FlyingOf(p)', Fetching(p)'
  PROVE  \A q \in CliProc : FlyingOf(q)' /\ Fetching(q)'
BY DEF TInv, FlyingOf, Fetching, Group

(* A step after which p neither sends nor fetches, of those that leave the   *)
(* uploads and the outputs alone.                                            *)
LEMMA Aside ==
  ASSUME TInv, NEW p \in CliProc, NEW pc \in CliPlaces \ {"uploading", "fetch"},
         NEW key, NEW posts, NEW seen, NEW code, Only(p, pc, key, posts, seen, code),
         cliSent' = cliSent, cliSave' = cliSave
  PROVE  \A q \in CliProc : FlyingOf(q)' /\ Fetching(q)'
<1>1. cli'[p].pc = pc
  BY DEF Only, IsProcess
<1>2. FlyingOf(p)' /\ Fetching(p)'
  BY <1>1 DEF FlyingOf, Fetching
<1> QED
  BY <1>2, Elsewhere DEF Only

LEMMA StartType ==
  ASSUME TInv, NEW p \in CliProc, CliStart(p)
  PROVE  TInv'
<1>1. cli \in [CliProc -> CliProcess] /\ ReadConfig.key \in CliKeys \union {NoKey}
  BY TypeRecords DEF TInv
<1>2. \/ \E pc \in {"approve", "forget", "exit", "upload", "look", "poll"} : Starts(p, pc)
      \/ Exits(p, 1)
  BY DEF CliStart
<1>3. CASE \E pc \in {"approve", "forget", "exit", "upload", "look", "poll"} : Starts(p, pc)
  <2>1. PICK pc \in {"approve", "forget", "exit", "upload", "look", "poll"} : Starts(p, pc)
    BY <1>3
  <2>2. pc \in CliPlaces \ {"uploading", "fetch"}
    BY DEF CliPlaces
  <2>3. Only(p, pc, ReadConfig.key, cli[p].posts, cli[p].seen, cli[p].code)
    BY <1>1, <2>1, <2>2, StartsOnly
  <2>4. \A q \in CliProc : FlyingOf(q)' /\ Fetching(q)'
    BY <2>2, <2>3, Aside DEF CliStart
  <2> QED
    BY <2>3, <2>4 DEF TInv, CliTypeOK, CliStart, Only
<1>4. CASE Exits(p, 1)
  <2>1. Only(p, "exit", cli[p].key, cli[p].posts, cli[p].seen, 1)
    BY <1>1, <1>4, ExitsOnly
  <2>2. \A q \in CliProc : FlyingOf(q)' /\ Fetching(q)'
    BY <2>1, Aside DEF CliStart, CliPlaces
  <2> QED
    BY <2>1, <2>2 DEF TInv, CliTypeOK, CliStart, Only
<1> QED
  BY <1>2, <1>3, <1>4

LEMMA AsideStep ==
  ASSUME TInv, NEW p \in CliProc, NEW pc \in CliPlaces \ {"uploading", "fetch"}, NEW seen \in CliSights,
         NEW code \in {0, 1, 130},
         Goes(p, pc) \/ Sees(p, pc, seen) \/ Exits(p, code) \/ Posts(p, pc, seen, code),
         cliSent' = cliSent, cliSave' = cliSave
  PROVE  cli' \in [CliProc -> CliProcess] /\ \A q \in CliProc : FlyingOf(q)' /\ Fetching(q)'
<1>1. cli \in [CliProc -> CliProcess]
  BY TypeRecords DEF TInv
<1>2. CASE Goes(p, pc)
  <2>1. Only(p, pc, cli[p].key, cli[p].posts, cli[p].seen, cli[p].code)
    BY <1>1, <1>2, GoesOnly
  <2>2. \A q \in CliProc : FlyingOf(q)' /\ Fetching(q)'
    BY <2>1, Aside
  <2> QED
    BY <2>1, <2>2 DEF Only
<1>3. CASE Sees(p, pc, seen)
  <2>1. Only(p, pc, cli[p].key, cli[p].posts, seen, cli[p].code)
    BY <1>1, <1>3, SeesOnly
  <2>2. \A q \in CliProc : FlyingOf(q)' /\ Fetching(q)'
    BY <2>1, Aside
  <2> QED
    BY <2>1, <2>2 DEF Only
<1>4. CASE Exits(p, code)
  <2>1. Only(p, "exit", cli[p].key, cli[p].posts, cli[p].seen, code)
    BY <1>1, <1>4, ExitsOnly
  <2>2. \A q \in CliProc : FlyingOf(q)' /\ Fetching(q)'
    BY <2>1, Aside DEF CliPlaces
  <2> QED
    BY <2>1, <2>2 DEF Only
<1>5. CASE Posts(p, pc, seen, code)
  <2>1. Only(p, pc, cli[p].key, cli[p].posts + 1, seen, code)
    BY <1>1, <1>5, PostsOnly
  <2>2. \A q \in CliProc : FlyingOf(q)' /\ Fetching(q)'
    BY <2>1, Aside
  <2> QED
    BY <2>1, <2>2 DEF Only
<1> QED
  BY <1>2, <1>3, <1>4, <1>5

LEMMA LoginType ==
  ASSUME TInv, NEW p \in CliProc, LoginStep(p)
  PROVE  TInv'
<1>1. UNCHANGED <<cliDir, cliJob, cliSent, cliPoll, cliSave>>
  BY LoginMoves
<1>2. cli' \in [CliProc -> CliProcess] /\ \A q \in CliProc : FlyingOf(q)' /\ Fetching(q)'
  <2>1. PICK pc \in LoginPlaces, code \in {0, 1} : Goes(p, pc) \/ Exits(p, code)
    BY LoginMoves
  <2>2. pc \in CliPlaces \ {"uploading", "fetch"} /\ code \in {0, 1, 130} /\ "none" \in CliSights
    BY DEF CliPlaces, CliSights, CliJobStates, LoginPlaces
  <2> QED
    BY <1>1, <2>1, <2>2, AsideStep
<1>3. cliConf' \in [CliProc -> ConfType] /\ cliFile' \in FileType
  BY LoginConf, LoginFile DEF TInv
<1> QED
  BY <1>1, <1>2, <1>3 DEF TInv, CliTypeOK, ConfType, FileType

LEMMA WaitType ==
  ASSUME TInv, NEW p \in CliProc,
         PollTransient(p) \/ PollRefused(p) \/ PollAnswer(p) \/ LookOnce(p) \/ Sleep(p) \/ Post(p) \/ Interrupt(p)
  PROVE  TInv'
<1>1. UNCHANGED <<cliFile, cliDir, cliConf, cliSent, cliSave>>
  BY DEF PollTransient, PollRefused, PollAnswer, LookOnce, Sleep, Post, Interrupt
<1>2. cliJob \in [CliProc -> CliJobStates] /\ cliPoll \in [CliProc -> PollType]
  BY TypeRecords DEF TInv, CliTypeOK
<1>3. \E pc \in {"poll", "sleep", "finish", "exit"}, seen \in CliSights, code \in {0, 1, 130} :
        Goes(p, pc) \/ Sees(p, pc, seen) \/ Exits(p, code) \/ Posts(p, pc, seen, code)
  <2>1. cliJob[p] \in CliSights /\ "unknown" \in CliSights /\ "result" \in CliSights /\ "none" \in CliSights
    BY <1>2 DEF CliSights, CliJobStates
  <2> QED
    BY <2>1 DEF PollTransient, PollRefused, PollAnswer, LookOnce, Sleep, Post, Interrupt
<1>4. cli' \in [CliProc -> CliProcess] /\ \A q \in CliProc : FlyingOf(q)' /\ Fetching(q)'
  <2>1. PICK pc \in {"poll", "sleep", "finish", "exit"}, seen \in CliSights, code \in {0, 1, 130} :
          Goes(p, pc) \/ Sees(p, pc, seen) \/ Exits(p, code) \/ Posts(p, pc, seen, code)
    BY <1>3
  <2>2. pc \in CliPlaces \ {"uploading", "fetch"}
    BY DEF CliPlaces
  <2> QED
    BY <1>1, <2>1, <2>2, AsideStep
<1>5. cliJob' \in [CliProc -> CliJobStates]
  <2>1. cliJob' = cliJob \/ cliJob' = [cliJob EXCEPT ![p] = "queued"]
    BY DEF PollTransient, PollRefused, PollAnswer, LookOnce, Sleep, Post, Interrupt
  <2> QED
    BY <1>2, <2>1 DEF CliJobStates, CliActive
<1>6. cliPoll' \in [CliProc -> PollType]
  <2>1. cliPoll[p] \in PollType
    BY <1>2
  <2>2. cliPoll[p].transient + 1 \in Nat
    BY <2>1 DEF PollType
  <2>3. (IF cliPoll[p].sleeps > CliPatience THEN cliPoll[p].sleeps ELSE cliPoll[p].sleeps + 1) \in 0 .. CliPatience + 1
    BY <2>1 DEF PollType
  <2>4. CASE PollTransient(p)
    <3>1. [cliPoll[p] EXCEPT !.transient = cliPoll[p].transient + 1] \in PollType
      BY <2>1, <2>2 DEF PollType
    <3> QED
      BY <1>2, <2>4, <3>1 DEF PollTransient
  <2>5. CASE PollAnswer(p)
    <3>1. [cliPoll[p] EXCEPT !.transient = 0] \in PollType
      BY <2>1 DEF PollType
    <3> QED
      BY <1>2, <2>5, <3>1 DEF PollAnswer
  <2>6. CASE Sleep(p)
    <3>1. [cliPoll[p] EXCEPT !.sleeps = IF cliPoll[p].sleeps > CliPatience THEN cliPoll[p].sleeps
                                        ELSE cliPoll[p].sleeps + 1] \in PollType
      BY <2>1, <2>3 DEF PollType
    <3> QED
      BY <1>2, <2>6, <3>1 DEF Sleep
  <2> QED
    BY <1>2, <2>4, <2>5, <2>6 DEF PollRefused, LookOnce, Post, Interrupt
<1> QED
  BY <1>1, <1>4, <1>5, <1>6 DEF TInv, CliTypeOK, PollType

LEMMA StartUploadsType ==
  ASSUME TInv, NEW p \in CliProc, StartUploads(p)
  PROVE  TInv'
<1>1. cli \in [CliProc -> CliProcess] /\ cliSent \in [CliProc -> SentType]
  BY TypeRecords DEF TInv
<1>2. UNCHANGED <<cliFile, cliDir, cliJob, cliConf, cliPoll, cliSave>> /\ cli[p].pc = "upload"
  BY DEF StartUploads, At
<1>3. CASE cli' = cli /\ SentOnly(p, cliSent[p].group + 1, cliSent[p].flying, cliSent[p].cache)
  <2>1. FlyingOf(p)' /\ Fetching(p)'
    BY <1>2, <1>3 DEF FlyingOf, Fetching
  <2>2. \A q \in CliProc : FlyingOf(q)' /\ Fetching(q)'
    BY <1>2, <1>3, <2>1, Elsewhere DEF SentOnly
  <2> QED
    BY <1>2, <1>3, <2>2 DEF TInv, CliTypeOK, SentOnly, SentType
<1>4. CASE Goes(p, "uploading") /\ SentOnly(p, cliSent[p].group, ToUpload(p), cliSent[p].cache)
  <2>1. Only(p, "uploading", cli[p].key, cli[p].posts, cli[p].seen, cli[p].code)
    BY <1>1, <1>4, GoesOnly DEF CliPlaces
  <2>2. /\ cli'[p].pc = "uploading" /\ cli'[p].cmd = cli[p].cmd
        /\ cliSent'[p].group = cliSent[p].group /\ cliSent'[p].flying = ToUpload(p)
    BY <1>4, <2>1 DEF Only, IsProcess, SentOnly, IsSent
  <2>3. cliSent[p].group \in DOMAIN cli[p].cmd.groups
    BY StartUploadsSent DEF TInv
  <2>4. Group(p)' = Group(p) /\ ToUpload(p) \subseteq DOMAIN Group(p)
    BY <2>2 DEF Group, ToUpload
  <2>5. FlyingOf(p)' /\ Fetching(p)'
    BY <2>2, <2>3, <2>4 DEF FlyingOf, Fetching
  <2>6. \A q \in CliProc : FlyingOf(q)' /\ Fetching(q)'
    BY <1>2, <1>4, <2>1, <2>5, Elsewhere DEF SentOnly, Only
  <2> QED
    BY <1>2, <1>4, <2>1, <2>6 DEF TInv, CliTypeOK, SentOnly, SentType, Only
<1> QED
  BY <1>3, <1>4, StartUploadsSent DEF TInv

LEMMA FileUploadedType ==
  ASSUME TInv, NEW p \in CliProc, NEW i, FileUploaded(p, i)
  PROVE  TInv'
<1> DEFINE cache == cliSent[p].cache \union {Group(p)[i]}
<1>1. cli \in [CliProc -> CliProcess] /\ cliSent \in [CliProc -> SentType]
  BY TypeRecords DEF TInv
<1>2. UNCHANGED <<cliFile, cliDir, cliJob, cliConf, cliPoll, cliSave>> /\ cli[p].pc = "uploading"
  BY DEF FileUploaded, At
<1>3. FlyingOf(p)
  BY DEF TInv
<1>4. CASE cli' = cli /\ SentOnly(p, cliSent[p].group, cliSent[p].flying \ {i}, cache)
  <2>1. Group(p)' = Group(p) /\ cliSent'[p].group = cliSent[p].group /\ cliSent'[p].flying \subseteq cliSent[p].flying
    BY <1>4 DEF Group, SentOnly, IsSent
  <2>2. FlyingOf(p)' /\ Fetching(p)'
    BY <1>2, <1>3, <1>4, <2>1 DEF FlyingOf, Fetching
  <2>3. \A q \in CliProc : FlyingOf(q)' /\ Fetching(q)'
    BY <1>2, <1>4, <2>2, Elsewhere DEF SentOnly
  <2> QED
    BY <1>2, <1>4, <2>3 DEF TInv, CliTypeOK, SentOnly, SentType
<1>5. CASE Goes(p, "upload") /\ SentOnly(p, cliSent[p].group + 1, {}, cache)
  <2>1. Only(p, "upload", cli[p].key, cli[p].posts, cli[p].seen, cli[p].code)
    BY <1>1, <1>5, GoesOnly DEF CliPlaces
  <2>2. FlyingOf(p)' /\ Fetching(p)'
    BY <2>1 DEF FlyingOf, Fetching, Only, IsProcess
  <2>3. \A q \in CliProc : FlyingOf(q)' /\ Fetching(q)'
    BY <1>2, <1>5, <2>1, <2>2, Elsewhere DEF SentOnly, Only
  <2> QED
    BY <1>2, <1>5, <2>1, <2>3 DEF TInv, CliTypeOK, SentOnly, SentType, Only
<1>6. CASE Exits(p, 1) /\ cliSent' = cliSent
  <2>1. Only(p, "exit", cli[p].key, cli[p].posts, cli[p].seen, 1)
    BY <1>1, <1>6, ExitsOnly
  <2>2. \A q \in CliProc : FlyingOf(q)' /\ Fetching(q)'
    BY <1>2, <1>6, <2>1, Aside DEF CliPlaces
  <2> QED
    BY <1>2, <1>6, <2>1, <2>2 DEF TInv, CliTypeOK, Only
<1> QED
  BY <1>3, <1>4, <1>5, <1>6, FileUploadedSent DEF TInv

LEMMA OutputType ==
  ASSUME TInv, NEW p \in CliProc, Finish(p) \/ PickName(p) \/ SaveOutput(p)
  PROVE  TInv'
<1>1. cli \in [CliProc -> CliProcess] /\ cliSave \in [CliProc -> SaveType]
  BY TypeRecords DEF TInv
<1>2. UNCHANGED <<cliFile, cliJob, cliConf, cliPoll, cliSent>>
  BY DEF Finish, PickName, SaveOutput
<1>3. cliDir' \in [0 .. CliNames -> {Absent, UserFile} \union (CliProc \X (1 .. CliOutputs))]
  <2>1. cliDir \in [0 .. CliNames -> {Absent, UserFile} \union (CliProc \X (1 .. CliOutputs))]
    BY DEF TInv, CliTypeOK
  <2>2. CASE Finish(p) \/ PickName(p)
    BY <2>1, <2>2 DEF Finish, PickName
  <2>3. CASE SaveOutput(p)
    <3>1. cliSave[p] \in SaveType /\ cliSave[p].left > 0
      BY <1>1, <2>3 DEF SaveOutput, TInv, Fetching, At
    <3>2. cliSave[p].left \in 1 .. CliOutputs
      BY <3>1 DEF SaveType
    <3> DEFINE file == <<p, cliSave[p].left>>
    <3>3. file \in CliProc \X (1 .. CliOutputs)
      BY <3>2
    <3>4. cliDir' = cliDir \/ cliDir' = [cliDir EXCEPT ![cliSave[p].name] = file]
      BY <2>3 DEF SaveOutput
    <3> HIDE DEF file
    <3> QED
      BY <2>1, <3>3, <3>4
  <2> QED
    BY <2>2, <2>3
<1>4. CASE \E code \in {0, 1} : Exits(p, code) /\ cliSave' = cliSave
  <2>1. PICK code \in {0, 1} : Exits(p, code) /\ cliSave' = cliSave
    BY <1>4
  <2>2. Only(p, "exit", cli[p].key, cli[p].posts, cli[p].seen, code)
    BY <1>1, <2>1, ExitsOnly
  <2>3. \A q \in CliProc : FlyingOf(q)' /\ Fetching(q)'
    BY <1>2, <2>1, <2>2, Aside DEF CliPlaces
  <2> QED
    BY <1>2, <1>3, <2>1, <2>2, <2>3 DEF TInv, CliTypeOK, Only
<1>5. CASE \E left, name, used : Goes(p, "pick") /\ SaveOnly(p, left, name, used)
  <2>1. PICK left, name, used : Goes(p, "pick") /\ SaveOnly(p, left, name, used)
    BY <1>5
  <2>2. Only(p, "pick", cli[p].key, cli[p].posts, cli[p].seen, cli[p].code)
    BY <1>1, <2>1, GoesOnly DEF CliPlaces
  <2>3. FlyingOf(p)' /\ Fetching(p)'
    BY <2>2 DEF FlyingOf, Fetching, Only, IsProcess
  <2>4. \A q \in CliProc : FlyingOf(q)' /\ Fetching(q)'
    BY <1>2, <2>1, <2>2, <2>3, Elsewhere DEF SaveOnly, Only
  <2> QED
    BY <1>2, <1>3, <2>1, <2>2, <2>4 DEF TInv, CliTypeOK, SaveOnly, SaveType, Only
<1>6. CASE cliSave[p].left > 0 /\ Goes(p, "fetch") /\ \E name, used : SaveOnly(p, cliSave[p].left, name, used)
  <2>1. PICK name, used : SaveOnly(p, cliSave[p].left, name, used)
    BY <1>6
  <2>2. Only(p, "fetch", cli[p].key, cli[p].posts, cli[p].seen, cli[p].code)
    BY <1>1, <1>6, GoesOnly DEF CliPlaces
  <2>3. FlyingOf(p)' /\ Fetching(p)'
    BY <1>6, <2>1, <2>2 DEF FlyingOf, Fetching, Only, IsProcess, SaveOnly, IsSave
  <2>4. \A q \in CliProc : FlyingOf(q)' /\ Fetching(q)'
    BY <1>2, <2>1, <2>2, <2>3, Elsewhere DEF SaveOnly, Only
  <2> QED
    BY <1>2, <1>3, <2>1, <2>2, <2>4 DEF TInv, CliTypeOK, SaveOnly, SaveType, Only
<1>7. CASE Finish(p)
  BY <1>4, <1>5, <1>7, FinishSave DEF ExitCode, TInv
<1>8. CASE PickName(p)
  BY <1>4, <1>6, <1>8, PickNameSave DEF ExitCode, TInv
<1>9. CASE SaveOutput(p)
  BY <1>4, <1>5, <1>9, SaveOutputSave DEF TInv
<1> QED
  BY <1>7, <1>8, <1>9

LEMMA TypeStep == TInv /\ [CliNext]_cliVars => TInv'
<1> SUFFICES ASSUME TInv, [CliNext]_cliVars PROVE TInv'
  OBVIOUS
<1>1. CASE UNCHANGED cliVars
  BY <1>1 DEF cliVars, TInv, CliTypeOK, FlyingOf, Fetching, Group
<1>2. ASSUME NEW p \in CliProc, CliStep(p) PROVE TInv'
  <2>1. CASE CliStart(p)
    BY <2>1, StartType
  <2>2. CASE LoginStep(p)
    BY <2>2, LoginType
  <2>3. CASE StartUploads(p)
    BY <2>3, StartUploadsType
  <2>4. CASE \E i \in cliSent[p].flying : FileUploaded(p, i)
    BY <2>4, FileUploadedType
  <2>5. CASE PollTransient(p) \/ PollRefused(p) \/ PollAnswer(p) \/ LookOnce(p) \/ Sleep(p) \/ Post(p)
    BY <2>5, WaitType
  <2>6. CASE Finish(p) \/ PickName(p) \/ SaveOutput(p)
    BY <2>6, OutputType
  <2> QED
    BY <1>2, <2>1, <2>2, <2>3, <2>4, <2>5, <2>6 DEF CliStep
<1>3. ASSUME NEW p \in CliProc, CliJobMoves(p) \/ \E s \in {"completed", "failed"} : CliJobEnds(p, s) PROVE TInv'
  <2>1. cliJob' \in [CliProc -> CliJobStates]
    BY <1>3 DEF CliJobMoves, CliJobEnds, TInv, CliTypeOK, CliJobStates, CliActive
  <2>2. UNCHANGED <<cliFile, cliDir, cli, cliConf, cliSent, cliPoll, cliSave>>
    BY <1>3 DEF CliJobMoves, CliJobEnds
  <2> QED
    BY <2>1, <2>2 DEF TInv, CliTypeOK, FlyingOf, Fetching, Group
<1> QED
  BY <1>1, <1>2, <1>3, WaitType DEF CliNext

LEMMA TypeInit == CliInit => CliTypeOK
<1> SUFFICES ASSUME CliInit PROVE CliTypeOK
  OBVIOUS
<1>1. cliFile \in FileType
  BY DEF CliInit, FileType
<1>2. PICK commands \in CliSessions :
        /\ cliJob = [p \in CliProc |-> commands[p].job]
        /\ cli = [p \in CliProc |-> [pc |-> "start", cmd |-> commands[p], key |-> NoKey, posts |-> 0,
                                     seen |-> "none", code |-> 0]]
  BY DEF CliInit
<1>3. commands \in [CliProc -> CliCommands]
  BY CliCommandLines
<1>4. cliJob \in [CliProc -> CliJobStates]
  BY <1>2, <1>3 DEF CliCommands
<1> QED
  BY <1>1, <1>2, <1>3, <1>4 DEF CliInit, CliTypeOK, CliProcess, CliPlaces, CliSights, CliJobStates, FileType

LEMMA TInvInit == CliInit => TInv
<1> SUFFICES ASSUME CliInit PROVE TInv
  OBVIOUS
<1>1. CliTypeOK
  BY TypeInit
<1>2. \A p \in CliProc : cli[p].pc = "start"
  BY DEF CliInit
<1> QED
  BY <1>1, <1>2 DEF TInv, FlyingOf, Fetching

LEMMA TInvAlways == CliSpec => []TInv
BY TInvInit, TypeStep, PTL DEF CliSpec

(* Every reachable state has the declared types, and an upload only sends    *)
(* files of a group the command line names.                                  *)
THEOREM CliTypesHold == CliSpec => []CliTypeOK
<1>1. TInv => CliTypeOK
  BY DEF TInv
<1> QED
  BY <1>1, TInvAlways, PTL

(* ------------------------------------------------- no file is overwritten -- *)

LEMMA ClobberStep ==
  TInv /\ [CliNext]_cliVars => [\A n \in 0 .. CliNames : cliDir[n] # Absent => cliDir'[n] = cliDir[n]]_cliVars
<1> SUFFICES ASSUME TInv, CliNext, NEW n \in 0 .. CliNames, cliDir[n] # Absent PROVE cliDir'[n] = cliDir[n]
  OBVIOUS
<1>1. ASSUME NEW p \in CliProc, SaveOutput(p) PROVE cliDir'[n] = cliDir[n]
  <2>1. cliDir' = cliDir \/ \E file : /\ cliDir[cliSave[p].name] = Absent
                                      /\ cliDir' = [cliDir EXCEPT ![cliSave[p].name] = file]
    BY <1>1, SaveOutputSave DEF TInv
  <2>2. cliDir \in [0 .. CliNames -> {Absent, UserFile} \union (CliProc \X (1 .. CliOutputs))]
    BY DEF TInv, CliTypeOK
  <2> QED
    BY <2>1, <2>2
<1>2. ASSUME NEW p \in CliProc, CliStep(p) PROVE cliDir'[n] = cliDir[n]
  BY <1>1, <1>2, LoginMoves
     DEF CliStep, CliStart, StartUploads, Post, FileUploaded, PollTransient, PollRefused, PollAnswer, LookOnce, Sleep, Finish, PickName
<1>3. ASSUME NEW p \in CliProc, Interrupt(p) \/ CliJobMoves(p) \/ \E s \in {"completed", "failed"} : CliJobEnds(p, s)
      PROVE  cliDir'[n] = cliDir[n]
  BY <1>3 DEF Interrupt, CliJobMoves, CliJobEnds
<1> QED
  BY <1>2, <1>3 DEF CliNext

(* Whatever processes save side by side, and whatever the user keeps in the  *)
(* directory, a name that holds something holds it for good (downloadAll).   *)
THEOREM SavesNeverClobber == CliSpec => NothingClobbered
<1>1. TInv /\ [CliNext]_cliVars => [\A n \in 0 .. CliNames : cliDir[n] # Absent => cliDir'[n] = cliDir[n]]_cliVars
  BY ClobberStep
<1> QED
  BY <1>1, TInvAlways, PTL DEF CliSpec, NothingClobbered

(* ------------------------------------------------------ where a step leads -- *)

(* Process p moves to one of these places; the others stay.                  *)
WentOn(p, places) ==
  /\ \A q \in CliProc \ {p} : cli'[q] = cli[q]
  /\ cli'[p].cmd = cli[p].cmd /\ cli'[p].pc \in places

LEMMA GoesMoves ==
  ASSUME TInv, NEW p \in CliProc, NEW pc \in CliPlaces, NEW seen \in CliSights, NEW code \in {0, 1, 130}
  PROVE  /\ Goes(p, pc) => WentOn(p, {pc}) /\ cli'[p].key = cli[p].key /\ cli'[p].posts = cli[p].posts
                            /\ cli'[p].seen = cli[p].seen
         /\ Sees(p, pc, seen) => WentOn(p, {pc}) /\ cli'[p].key = cli[p].key /\ cli'[p].posts = cli[p].posts
                            /\ cli'[p].seen = seen
         /\ Exits(p, code) => WentOn(p, {"exit"}) /\ cli'[p].key = cli[p].key /\ cli'[p].posts = cli[p].posts
                            /\ cli'[p].seen = cli[p].seen /\ cli'[p].code = code
         /\ Posts(p, pc, seen, code) => WentOn(p, {pc}) /\ cli'[p].key = cli[p].key
                            /\ cli'[p].posts = cli[p].posts + 1 /\ cli'[p].seen = seen /\ cli'[p].code = code
<1>1. cli \in [CliProc -> CliProcess]
  BY TypeRecords DEF TInv
<1>2. ASSUME Goes(p, pc) PROVE Only(p, pc, cli[p].key, cli[p].posts, cli[p].seen, cli[p].code)
  BY <1>1, <1>2, GoesOnly
<1>3. ASSUME Sees(p, pc, seen) PROVE Only(p, pc, cli[p].key, cli[p].posts, seen, cli[p].code)
  BY <1>1, <1>3, SeesOnly
<1>4. ASSUME Exits(p, code) PROVE Only(p, "exit", cli[p].key, cli[p].posts, cli[p].seen, code)
  BY <1>1, <1>4, ExitsOnly
<1>5. ASSUME Posts(p, pc, seen, code) PROVE Only(p, pc, cli[p].key, cli[p].posts + 1, seen, code)
  BY <1>1, <1>5, PostsOnly
<1> QED
  BY <1>2, <1>3, <1>4, <1>5 DEF Only, IsProcess, WentOn

WorkPlaces == {"upload", "uploading", "poll", "sleep", "finish", "pick", "fetch", "exit"}

(* Everything but the start and the login steps.                             *)
Works(p) ==
  \/ StartUploads(p) \/ Post(p) \/ \E i \in cliSent[p].flying : FileUploaded(p, i)
  \/ PollTransient(p) \/ PollRefused(p) \/ PollAnswer(p) \/ LookOnce(p) \/ Sleep(p)
  \/ Finish(p) \/ PickName(p) \/ SaveOutput(p) \/ Interrupt(p)

LEMMA WorksMoves ==
  ASSUME TInv, NEW p \in CliProc, Works(p)
  PROVE  cli' = cli \/ WentOn(p, WorkPlaces)
<1>1. cliJob[p] \in CliSights /\ "unknown" \in CliSights /\ "result" \in CliSights /\ "none" \in CliSights
  BY DEF TInv, CliTypeOK, CliSights, CliJobStates
<1> DEFINE moves == \E pc \in WorkPlaces, seen \in CliSights, code \in {0, 1, 130} :
                      Goes(p, pc) \/ Sees(p, pc, seen) \/ Exits(p, code) \/ Posts(p, pc, seen, code)
<1>2. cli' = cli \/ moves
  <2>1. CASE StartUploads(p) \/ \E i \in cliSent[p].flying : FileUploaded(p, i)
    BY <1>1, <2>1 DEF WorkPlaces, StartUploads, FileUploaded
  <2>2. CASE Post(p)
    BY <1>1, <2>2 DEF WorkPlaces, Post
  <2>3. CASE PollTransient(p) \/ PollRefused(p) \/ PollAnswer(p)
    BY <1>1, <2>3 DEF WorkPlaces, PollTransient, PollRefused, PollAnswer
  <2>4. CASE LookOnce(p) \/ Sleep(p) \/ Interrupt(p)
    BY <1>1, <2>4 DEF WorkPlaces, LookOnce, Sleep, Interrupt
  <2>5. CASE Finish(p) \/ PickName(p) \/ SaveOutput(p)
    <3>1. ExitCode(cli[p].seen) \in {0, 1, 130}
      BY DEF ExitCode
    <3>2. Goes(p, "pick") \/ Goes(p, "fetch") \/ Exits(p, ExitCode(cli[p].seen)) \/ Exits(p, 1)
      BY <2>5 DEF Finish, PickName, SaveOutput
    <3> QED
      BY <1>1, <3>1, <3>2 DEF WorkPlaces
  <2> QED
    BY <2>1, <2>2, <2>3, <2>4, <2>5 DEF Works
<1>3. ASSUME NEW pc \in WorkPlaces, NEW seen \in CliSights, NEW code \in {0, 1, 130},
             Goes(p, pc) \/ Sees(p, pc, seen) \/ Exits(p, code) \/ Posts(p, pc, seen, code)
      PROVE  WentOn(p, WorkPlaces)
  <2>1. pc \in CliPlaces
    BY DEF WorkPlaces, CliPlaces
  <2>2. WentOn(p, {pc}) \/ WentOn(p, {"exit"})
    BY <1>3, <2>1, GoesMoves
  <2> QED
    BY <2>2 DEF WentOn, WorkPlaces
<1> QED
  BY <1>2, <1>3

(* --------------------------------------------------- keys and settings kept -- *)

(* What a process at a login or logout place holds.                          *)
KeyHeld(p) ==
  /\ cli[p].pc \in {"approve", "verify"} => cli[p].cmd.op = "login"
  /\ cli[p].pc \in {"forget", "remove"} => cli[p].cmd.op = "logout"
  /\ cli[p].pc = "verify" => cliConf[p].got.for = p \/ cli[p].cmd.paste
  /\ cli[p].pc \in {"truncate", "fill"} =>
       \/ /\ cli[p].cmd.op = "login" /\ cliConf[p].got.valid
          /\ cliConf[p].got.for = p \/ cli[p].cmd.paste
       \/ cli[p].cmd.op = "logout" /\ cliConf[p].got = NoKey
  /\ cli[p].pc = "protect" => cli[p].cmd.op \in {"login", "logout"}
  /\ cli[p].cmd.op # "login" => cliConf[p].got = NoKey

(* Some process read an unreadable file, or there were no settings to begin  *)
(* with.                                                                     *)
Excuse == \E p \in CliProc : cliConf[p].torn \/ ~cliConf[p].had

SettingsHeld(p) ==
  /\ cli[p].pc \in {"start", "approve", "verify", "forget"} => ~cliConf[p].torn
  /\ cli[p].pc \in {"truncate", "fill"} /\ ~cliConf[p].base => Excuse
  /\ cli[p].pc = "remove" => Excuse

(* A process that has emptied the file is about to write it or was stopped.  *)
OpenHeld(p) == cliConf[p].file = "open" => cli[p].pc = "fill" \/ (cli[p].pc = "exit" /\ cli[p].code = 130)

FileHolds ==
  /\ cliFile.key # NoKey => cliFile.key.valid
  /\ ~Unreadable /\ ~cliFile.base => Excuse
  /\ cliFile.kind = "absent" => ~cliFile.base

(* Who has the file open: an empty file has been emptied by somebody, a file *)
(* with content since then has been written by somebody, and what cannot be  *)
(* read by two.                                                              *)
FileWritten ==
  /\ cliFile.kind = "empty" => \E p \in CliProc : cliConf[p].file = "open"
  /\ cliFile.longest > 0 => \E p \in CliProc : cliConf[p].file = "written"
  /\ cliFile.kind = "mixed" => \E p, q \in CliProc :
       p # q /\ cliConf[p].file = "written" /\ cliConf[q].file = "written"

Held(p) == KeyHeld(p) /\ SettingsHeld(p) /\ OpenHeld(p)

ConfInv == TInv /\ FileHolds /\ FileWritten /\ \A p \in CliProc : Held(p)

LEMMA ConfInit == CliInit => ConfInv
<1> SUFFICES ASSUME CliInit PROVE ConfInv
  OBVIOUS
<1>1. PICK p \in CliProc : TRUE
  OBVIOUS
<1>2. \A q \in CliProc : /\ cli[q].pc = "start" /\ cliConf[q].got = NoKey /\ ~cliConf[q].torn
                         /\ cliConf[q].had = cliFile.base /\ cliConf[q].file = "none"
  BY DEF CliInit
<1>3. cliFile.kind = "ok" /\ cliFile.longest = 0 /\ (cliFile.key # NoKey => cliFile.key.valid)
  BY DEF CliInit
<1> QED
  BY <1>1, <1>2, <1>3, TInvInit
     DEF ConfInv, FileHolds, FileWritten, Excuse, Held, KeyHeld, SettingsHeld, OpenHeld

(* A step that leaves the file and the settings alone, after which p is at   *)
(* no login place, unless p was stopped after it opened the file.            *)
LEMMA ConfAside ==
  ASSUME ConfInv, TInv', NEW p \in CliProc,
         \/ cli' = cli
         \/ /\ WentOn(p, WorkPlaces \union {"look"})
            /\ cliConf[p].file = "open" => cli'[p].pc = "exit" /\ cli'[p].code = 130,
         cliFile' = cliFile, cliConf' = cliConf
  PROVE  ConfInv'
<1>1. FileHolds' /\ FileWritten'
  BY DEF ConfInv, FileHolds, FileWritten, Excuse, Unreadable
<1>2. ASSUME NEW q \in CliProc PROVE Held(q)'
  <2>1. CASE cli'[q] = cli[q]
    BY <2>1 DEF ConfInv, Held, KeyHeld, SettingsHeld, OpenHeld, Excuse
  <2>2. CASE /\ q = p /\ cli'[p].cmd = cli[p].cmd /\ cli'[p].pc \in WorkPlaces \union {"look"}
             /\ cliConf[p].file = "open" => cli'[p].pc = "exit" /\ cli'[p].code = 130
    BY <2>2 DEF ConfInv, Held, KeyHeld, SettingsHeld, OpenHeld, Excuse, WorkPlaces
  <2> QED
    BY <2>1, <2>2 DEF WentOn
<1> QED
  BY <1>1, <1>2 DEF ConfInv

LEMMA StartMoves ==
  ASSUME TInv, NEW p \in CliProc, CliStart(p)
  PROVE  /\ \/ WentOn(p, WorkPlaces \union {"look"})
            \/ WentOn(p, {"approve"}) /\ cli[p].cmd.op = "login"
            \/ WentOn(p, {"forget"}) /\ cli[p].cmd.op = "logout"
         /\ cli[p].pc = "start" /\ cli'[p].posts = cli[p].posts /\ cli'[p].seen = cli[p].seen
         /\ cli'[p].pc \in {"approve", "forget", "exit", "upload", "look", "poll"}
         /\ cli'[p].pc = "upload" => cli[p].cmd.op \in {"generate", "render"} /\ ~cli[p].cmd.dry /\ cli'[p].key # NoKey
         /\ cli'[p].pc = "look" => cli[p].cmd.op = "job" /\ cli[p].cmd.mode = "detach"
         /\ cli'[p].pc = "poll" => cli[p].cmd.op = "job"
         /\ cli'[p].pc = "exit" => cli'[p].code # 0 \/ cli[p].cmd.dry
<1>1. cli \in [CliProc -> CliProcess] /\ ReadConfig.key \in CliKeys \union {NoKey}
  BY TypeRecords DEF TInv
<1>2. ASSUME NEW pc \in CliPlaces, Starts(p, pc)
      PROVE  /\ WentOn(p, {pc}) /\ cli'[p].pc = pc /\ cli'[p].key = ReadConfig.key
             /\ cli'[p].posts = cli[p].posts /\ cli'[p].seen = cli[p].seen
  <2>1. Only(p, pc, ReadConfig.key, cli[p].posts, cli[p].seen, cli[p].code)
    BY <1>1, <1>2, StartsOnly
  <2> QED
    BY <2>1 DEF Only, IsProcess, WentOn
<1>3. {"approve", "forget", "exit", "upload", "look", "poll"} \subseteq CliPlaces
  BY DEF CliPlaces
<1>4. cli[p].pc = "start"
  BY DEF CliStart, At
<1>5. CASE Exits(p, 1)
  <2>1. Only(p, "exit", cli[p].key, cli[p].posts, cli[p].seen, 1)
    BY <1>1, <1>5, ExitsOnly
  <2>2. WentOn(p, {"exit"}) /\ cli'[p].posts = cli[p].posts /\ cli'[p].seen = cli[p].seen /\ cli'[p].code = 1
    BY <2>1 DEF Only, IsProcess, WentOn
  <2>3. WentOn(p, WorkPlaces \union {"look"}) /\ cli'[p].pc = "exit"
    BY <2>2 DEF WentOn, WorkPlaces
  <2> QED
    BY <1>4, <2>2, <2>3
<1>6. CASE cli[p].cmd.op = "login" /\ Starts(p, "approve")
  <2>1. /\ WentOn(p, {"approve"}) /\ cli'[p].key = ReadConfig.key
        /\ cli'[p].posts = cli[p].posts /\ cli'[p].seen = cli[p].seen
    BY <1>2, <1>3, <1>6
  <2>2. cli'[p].pc = "approve"
    BY <2>1 DEF WentOn, WorkPlaces
  <2> QED
    BY <1>4, <1>6, <2>1, <2>2
<1>7. CASE cli[p].cmd.op = "logout" /\ Starts(p, "forget")
  <2>1. /\ WentOn(p, {"forget"}) /\ cli'[p].key = ReadConfig.key
        /\ cli'[p].posts = cli[p].posts /\ cli'[p].seen = cli[p].seen
    BY <1>2, <1>3, <1>7
  <2>2. cli'[p].pc = "forget"
    BY <2>1 DEF WentOn, WorkPlaces
  <2> QED
    BY <1>4, <1>7, <2>1, <2>2
<1>8. CASE cli[p].cmd.dry /\ Starts(p, "exit")
  <2>1. /\ WentOn(p, {"exit"}) /\ cli'[p].key = ReadConfig.key
        /\ cli'[p].posts = cli[p].posts /\ cli'[p].seen = cli[p].seen
    BY <1>2, <1>3, <1>8
  <2>2. WentOn(p, WorkPlaces \union {"look"}) /\ cli'[p].pc = "exit"
    BY <2>1 DEF WentOn, WorkPlaces
  <2> QED
    BY <1>4, <1>8, <2>1, <2>2
<1>9. CASE cli[p].cmd.op \in {"generate", "render"} /\ ~cli[p].cmd.dry /\ ReadConfig.key # NoKey /\ Starts(p, "upload")
  <2>1. /\ WentOn(p, {"upload"}) /\ cli'[p].key = ReadConfig.key
        /\ cli'[p].posts = cli[p].posts /\ cli'[p].seen = cli[p].seen
    BY <1>2, <1>3, <1>9
  <2>2. WentOn(p, WorkPlaces \union {"look"}) /\ cli'[p].pc = "upload"
    BY <2>1 DEF WentOn, WorkPlaces
  <2> QED
    BY <1>4, <1>9, <2>1, <2>2
<1>10. CASE cli[p].cmd.op = "job" /\ cli[p].cmd.mode = "detach" /\ Starts(p, "look")
  <2>1. /\ WentOn(p, {"look"}) /\ cli'[p].key = ReadConfig.key
        /\ cli'[p].posts = cli[p].posts /\ cli'[p].seen = cli[p].seen
    BY <1>2, <1>3, <1>10
  <2>2. WentOn(p, WorkPlaces \union {"look"}) /\ cli'[p].pc = "look"
    BY <2>1 DEF WentOn, WorkPlaces
  <2> QED
    BY <1>4, <1>10, <2>1, <2>2
<1>11. CASE cli[p].cmd.op = "job" /\ Starts(p, "poll")
  <2>1. /\ WentOn(p, {"poll"}) /\ cli'[p].key = ReadConfig.key
        /\ cli'[p].posts = cli[p].posts /\ cli'[p].seen = cli[p].seen
    BY <1>2, <1>3, <1>11
  <2>2. WentOn(p, WorkPlaces \union {"look"}) /\ cli'[p].pc = "poll"
    BY <2>1 DEF WentOn, WorkPlaces
  <2> QED
    BY <1>4, <1>11, <2>1, <2>2
<1> QED
  BY <1>5, <1>6, <1>7, <1>8, <1>9, <1>10, <1>11 DEF CliStart

LEMMA StartConf ==
  ASSUME ConfInv, TInv', NEW p \in CliProc, CliStart(p)
  PROVE  ConfInv'
<1>1. /\ TInv /\ cliFile' = cliFile /\ cliConf' = cliConf /\ Excuse' = Excuse /\ Unreadable' = Unreadable
      /\ FileWritten' = FileWritten
  BY DEF ConfInv, CliStart, Excuse, Unreadable, FileWritten
<1>2. cli[p].pc = "start" /\ Held(p)
  BY <1>1, StartMoves DEF ConfInv
<1>3. cliConf[p].file # "open"
  BY <1>2 DEF Held, OpenHeld
<1>4. CASE WentOn(p, WorkPlaces \union {"look"})
  BY <1>1, <1>3, <1>4, ConfAside
<1>5. CASE \/ WentOn(p, {"approve"}) /\ cli[p].cmd.op = "login"
           \/ WentOn(p, {"forget"}) /\ cli[p].cmd.op = "logout"
  <2>1. FileHolds' /\ FileWritten'
    BY <1>1 DEF ConfInv, FileHolds
  <2>2. ASSUME NEW q \in CliProc, q # p PROVE Held(q)'
    BY <1>1, <1>5, <2>2 DEF ConfInv, Held, KeyHeld, SettingsHeld, OpenHeld, WentOn
  <2>3. KeyHeld(p)'
    BY <1>1, <1>2, <1>5 DEF Held, KeyHeld, WentOn
  <2>4. SettingsHeld(p)'
    BY <1>1, <1>2, <1>5 DEF Held, SettingsHeld, WentOn
  <2>5. OpenHeld(p)'
    BY <1>1, <1>3 DEF OpenHeld
  <2> QED
    BY <2>1, <2>2, <2>3, <2>4, <2>5 DEF ConfInv, Held
<1> QED
  BY <1>1, <1>4, <1>5, StartMoves

(* Who has the file open is the same.                                        *)
SameUse == \A o \in CliProc : cliConf'[o].file = cliConf[o].file

LEMMA SameWritten ==
  ASSUME FileWritten, cliFile' = cliFile, SameUse
  PROVE  FileWritten'
BY DEF FileWritten, SameUse

(* The others keep what they hold when p alone moves.                        *)
LEMMA OthersHold ==
  ASSUME ConfInv, NEW p \in CliProc, NEW places, WentOn(p, places),
         \A o \in CliProc \ {p} : cliConf'[o] = cliConf[o], Excuse => Excuse'
  PROVE  \A o \in CliProc \ {p} : Held(o)'
BY DEF ConfInv, Held, KeyHeld, SettingsHeld, OpenHeld, WentOn

LEMMA TakesKeyHeld ==
  ASSUME ConfInv, TInv', NEW p \in CliProc, NEW key \in CliKeys, TakesKey(p, key),
         key.for = p \/ cli[p].cmd.paste
  PROVE  ConfInv'
<1>1. CliTypeOK /\ TInv
  BY DEF ConfInv, TInv
<1>2. /\ \A o \in CliProc \ {p} : cliConf'[o] = cliConf[o]
      /\ cliConf'[p].had = cliConf[p].had /\ cliConf'[p].got = key
      /\ cliConf'[p].base = cliConf[p].base /\ cliConf'[p].torn = cliConf[p].torn
      /\ cliConf'[p].file = cliConf[p].file
  BY <1>1, TakesKeyConf DEF ConfOnly, IsConf
<1>3. cliFile' = cliFile /\ cli[p].pc = "approve" /\ Held(p)
  BY DEF TakesKey, At, ConfInv
<1>4. WentOn(p, {"verify"})
  BY <1>1, GoesMoves DEF TakesKey, CliPlaces, CliSights
<1>5. Excuse => Excuse'
  BY <1>2 DEF Excuse
<1>6. FileHolds'
  BY <1>3, <1>5 DEF ConfInv, FileHolds, Unreadable
<1>7. FileWritten'
  BY <1>2, <1>3, SameWritten DEF ConfInv, SameUse
<1>8. KeyHeld(p)'
  BY <1>2, <1>3, <1>4 DEF Held, KeyHeld, WentOn
<1>9. SettingsHeld(p)'
  BY <1>2, <1>3, <1>4 DEF Held, SettingsHeld, WentOn
<1>10. OpenHeld(p)'
  BY <1>2, <1>3 DEF Held, OpenHeld
<1> QED
  BY <1>2, <1>4, <1>5, <1>6, <1>7, <1>8, <1>9, <1>10, OthersHold DEF ConfInv, Held

(* What reading the settings leaves: whoever reads them reads them once, and *)
(* if nothing was read there is an excuse.                                   *)
LEMMA ReadsHeld ==
  ASSUME ConfInv, NEW p \in CliProc, cli[p].pc \in {"verify", "forget"}, ReadsSettings(p)
  PROVE  /\ \A o \in CliProc \ {p} : cliConf'[o] = cliConf[o]
         /\ cliConf'[p].got = cliConf[p].got /\ cliConf'[p].base = ReadConfig.base
         /\ cliConf[p].file # "open" /\ cliConf'[p].file # "open" /\ SameUse
         /\ Excuse => Excuse'
         /\ ~ReadConfig.base => Excuse'
<1>1. CliTypeOK /\ Held(p)
  BY DEF ConfInv, TInv
<1>2. /\ \A o \in CliProc \ {p} : cliConf'[o] = cliConf[o]
      /\ cliConf'[p].had = cliConf[p].had /\ cliConf'[p].got = cliConf[p].got
      /\ cliConf'[p].base = ReadConfig.base /\ cliConf'[p].torn = Unreadable
      /\ cliConf'[p].file = cliConf[p].file
  BY <1>1, ReadsConf DEF ConfOnly, IsConf
<1>3. ~cliConf[p].torn /\ cliConf[p].file # "open"
  BY <1>1 DEF Held, SettingsHeld, OpenHeld
<1>4. Excuse => Excuse'
  BY <1>2, <1>3 DEF Excuse
<1>5. ASSUME ~ReadConfig.base PROVE Excuse'
  <2>1. CASE Unreadable
    BY <1>2, <2>1 DEF Excuse
  <2>2. CASE cliFile.kind = "ok"
    <3>1. ~cliFile.base /\ ~Unreadable
      BY <1>5, <2>2 DEF ReadConfig, Unreadable
    <3> QED
      BY <1>4, <3>1 DEF ConfInv, FileHolds
  <2>3. CASE cliFile.kind = "absent"
    <3>1. ~cliFile.base /\ ~Unreadable
      BY <2>3 DEF ConfInv, FileHolds, Unreadable
    <3> QED
      BY <1>4, <3>1 DEF ConfInv, FileHolds
  <2> QED
    BY <1>1, <2>1, <2>2, <2>3 DEF CliTypeOK, Unreadable
<1> QED
  BY <1>2, <1>3, <1>4, <1>5 DEF SameUse

LEMMA LoginTimesOutConf ==
  ASSUME ConfInv, TInv', NEW p \in CliProc, LoginTimesOut(p)
  PROVE  ConfInv'
<1>1. TInv /\ Held(p) /\ cli[p].pc = "approve"
  BY DEF LoginTimesOut, ConfInv, At
<1>2. WentOn(p, {"exit"})
  BY <1>1, GoesMoves DEF LoginTimesOut, CliPlaces, CliSights
<1>3. WentOn(p, WorkPlaces \union {"look"})
  BY <1>2 DEF WentOn, WorkPlaces
<1>4. cliConf[p].file # "open"
  BY <1>1 DEF Held, OpenHeld
<1> QED
  BY <1>3, <1>4, ConfAside DEF LoginTimesOut

LEMMA VerifyKeyConf ==
  ASSUME ConfInv, TInv', NEW p \in CliProc, VerifyKey(p)
  PROVE  ConfInv'
<1>1. TInv /\ cli[p].pc = "verify" /\ cliFile' = cliFile /\ Held(p)
  BY DEF ConfInv, VerifyKey, At
<1>2. CASE cliConf[p].got.valid /\ Goes(p, "truncate") /\ ReadsSettings(p)
  <2>1. WentOn(p, {"truncate"})
    BY <1>1, <1>2, GoesMoves DEF CliPlaces, CliSights
  <2>2. /\ \A o \in CliProc \ {p} : cliConf'[o] = cliConf[o]
        /\ cliConf'[p].got = cliConf[p].got /\ cliConf'[p].base = ReadConfig.base
        /\ cliConf'[p].file # "open" /\ SameUse
        /\ Excuse => Excuse'
        /\ ~ReadConfig.base => Excuse'
    BY <1>1, <1>2, ReadsHeld
  <2>3. cli'[p].pc = "truncate" /\ cli'[p].cmd = cli[p].cmd
    BY <2>1 DEF WentOn
  <2>4. FileHolds'
    BY <1>1, <2>2 DEF ConfInv, FileHolds, Unreadable
  <2>5. FileWritten'
    BY <1>1, <2>2, SameWritten DEF ConfInv
  <2>6. KeyHeld(p)'
    BY <1>1, <1>2, <2>2, <2>3 DEF Held, KeyHeld
  <2>7. SettingsHeld(p)' /\ OpenHeld(p)'
    BY <2>2, <2>3 DEF SettingsHeld, OpenHeld
  <2> QED
    BY <2>1, <2>2, <2>4, <2>5, <2>6, <2>7, OthersHold DEF ConfInv, Held
<1>3. CASE Exits(p, 1) /\ UNCHANGED cliConf
  <2>1. WentOn(p, {"exit"})
    BY <1>1, <1>3, GoesMoves DEF CliPlaces, CliSights
  <2>2. WentOn(p, WorkPlaces \union {"look"})
    BY <2>1 DEF WentOn, WorkPlaces
  <2>3. cliConf[p].file # "open"
    BY <1>1 DEF Held, OpenHeld
  <2> QED
    BY <1>1, <1>3, <2>2, <2>3, ConfAside
<1> QED
  BY <1>2, <1>3 DEF VerifyKey, Accepts

LEMMA ForgetKeyConf ==
  ASSUME ConfInv, TInv', NEW p \in CliProc, ForgetKey(p)
  PROVE  ConfInv'
<1>1. TInv /\ cli[p].pc = "forget" /\ ReadsSettings(p) /\ cliFile' = cliFile /\ Held(p)
  BY DEF ConfInv, ForgetKey, At
<1>2. /\ \A o \in CliProc \ {p} : cliConf'[o] = cliConf[o]
      /\ cliConf'[p].got = cliConf[p].got /\ cliConf'[p].base = ReadConfig.base
      /\ cliConf'[p].file # "open" /\ SameUse
      /\ Excuse => Excuse'
      /\ ~ReadConfig.base => Excuse'
  BY <1>1, ReadsHeld
<1>3. cli[p].cmd.op = "logout" /\ cliConf[p].got = NoKey
  BY <1>1 DEF Held, KeyHeld
<1>4. PICK pc \in {"exit", "remove", "truncate"} :
        WentOn(p, {pc}) /\ (pc = "remove" => ~ReadConfig.base)
  <2>1. CASE Exits(p, 0)
    BY <1>1, <2>1, GoesMoves DEF CliPlaces, CliSights
  <2>2. CASE Goes(p, "remove") /\ ~ReadConfig.base
    BY <1>1, <2>2, GoesMoves DEF CliPlaces, CliSights
  <2>3. CASE Goes(p, "truncate")
    BY <1>1, <2>3, GoesMoves DEF CliPlaces, CliSights
  <2> QED
    BY <2>1, <2>2, <2>3 DEF ForgetKey
<1>5. cli'[p].pc = pc /\ cli'[p].cmd = cli[p].cmd
  BY <1>4 DEF WentOn
<1>6. KeyHeld(p)'
  BY <1>2, <1>3, <1>5 DEF KeyHeld
<1>7. SettingsHeld(p)' /\ OpenHeld(p)'
  BY <1>2, <1>4, <1>5 DEF SettingsHeld, OpenHeld
<1>8. FileHolds'
  BY <1>1, <1>2 DEF ConfInv, FileHolds, Unreadable
<1>9. FileWritten'
  BY <1>1, <1>2, SameWritten DEF ConfInv
<1> QED
  BY <1>2, <1>4, <1>6, <1>7, <1>8, <1>9, OthersHold DEF ConfInv, Held

LEMMA RemoveConfigConf ==
  ASSUME ConfInv, TInv', NEW p \in CliProc, RemoveConfig(p)
  PROVE  ConfInv'
<1>1. CliTypeOK /\ TInv /\ cli[p].pc = "remove"
  BY DEF ConfInv, TInv, RemoveConfig, At
<1>2. \A o \in CliProc : /\ cliConf'[o].had = cliConf[o].had /\ cliConf'[o].got = cliConf[o].got
                         /\ cliConf'[o].base = cliConf[o].base /\ cliConf'[o].torn = cliConf[o].torn
                         /\ cliConf'[o].file = "none"
  BY <1>1, RemovesConf DEF IsConf
<1>3. WentOn(p, {"exit"})
  BY <1>1, GoesMoves DEF RemoveConfig, CliPlaces, CliSights
<1>4. Excuse' = Excuse /\ Excuse
  BY <1>1, <1>2 DEF Excuse, ConfInv, Held, SettingsHeld
<1>5. cliFile' = [kind |-> "absent", key |-> NoKey, base |-> FALSE, longest |-> 0]
  BY DEF RemoveConfig
<1>6. FileHolds' /\ FileWritten'
  BY <1>4, <1>5 DEF FileHolds, FileWritten
<1>7. ASSUME NEW o \in CliProc PROVE Held(o)'
  <2>1. \/ cli'[o] = cli[o]
        \/ cli'[o].pc = "exit" /\ cli'[o].cmd = cli[o].cmd
    BY <1>3 DEF WentOn
  <2>2. KeyHeld(o)'
    BY <1>2, <2>1 DEF ConfInv, Held, KeyHeld
  <2>3. SettingsHeld(o)' /\ OpenHeld(o)'
    BY <1>2, <1>4, <2>1 DEF ConfInv, Held, SettingsHeld, OpenHeld
  <2> QED
    BY <2>2, <2>3 DEF Held
<1> QED
  BY <1>6, <1>7 DEF ConfInv

LEMMA TruncateConfigConf ==
  ASSUME ConfInv, TInv', NEW p \in CliProc, TruncateConfig(p)
  PROVE  ConfInv'
<1>1. CliTypeOK /\ TInv /\ cli[p].pc = "truncate" /\ Held(p)
  BY DEF ConfInv, TInv, TruncateConfig, At
<1>2. /\ \A o \in CliProc \ {p} : cliConf'[o] = cliConf[o]
      /\ cliConf'[p].had = cliConf[p].had /\ cliConf'[p].got = cliConf[p].got
      /\ cliConf'[p].base = cliConf[p].base /\ cliConf'[p].torn = cliConf[p].torn
      /\ cliConf'[p].file = "open"
  BY <1>1, HoldsConf DEF TruncateConfig, ConfOnly, IsConf
<1>3. WentOn(p, {"fill"})
  BY <1>1, GoesMoves DEF TruncateConfig, CliPlaces, CliSights
<1>4. cli'[p].pc = "fill" /\ cli'[p].cmd = cli[p].cmd
  BY <1>3 DEF WentOn
<1>5. Excuse' = Excuse
  BY <1>2 DEF Excuse
<1>6. cliFile' = [kind |-> "empty", key |-> NoKey, base |-> FALSE, longest |-> 0]
  BY DEF TruncateConfig
<1>7. FileHolds' /\ FileWritten'
  BY <1>2, <1>6 DEF FileHolds, FileWritten, Unreadable
<1>8. KeyHeld(p)'
  BY <1>1, <1>2, <1>4 DEF Held, KeyHeld
<1>9. SettingsHeld(p)' /\ OpenHeld(p)'
  BY <1>1, <1>2, <1>4, <1>5 DEF Held, SettingsHeld, OpenHeld
<1> QED
  BY <1>2, <1>3, <1>5, <1>7, <1>8, <1>9, OthersHold DEF ConfInv, Held

(* Writing: of the file that p opened, unless it has been removed.           *)
LEMMA FillConfigConf ==
  ASSUME ConfInv, TInv', NEW p \in CliProc, FillConfig(p)
  PROVE  ConfInv'
<1>1. CliTypeOK /\ TInv /\ cli[p].pc = "fill" /\ Held(p)
  BY DEF ConfInv, TInv, FillConfig, At
<1>2. WentOn(p, {"protect"})
  BY <1>1, GoesMoves DEF FillConfig, CliPlaces, CliSights
<1>3. cli'[p].pc = "protect" /\ cli'[p].cmd = cli[p].cmd
  BY <1>2 DEF WentOn
<1>4. SettingsHeld(p)'
  BY <1>3 DEF SettingsHeld
<1>5. CASE cliConf[p].file = "open"
  <2>1. /\ \A o \in CliProc \ {p} : cliConf'[o] = cliConf[o]
        /\ cliConf'[p].had = cliConf[p].had /\ cliConf'[p].got = cliConf[p].got
        /\ cliConf'[p].base = cliConf[p].base /\ cliConf'[p].torn = cliConf[p].torn
        /\ cliConf'[p].file = "written"
    BY <1>1, <1>5, HoldsConf DEF FillConfig, ConfOnly, IsConf
  <2>2. Excuse' = Excuse
    BY <2>1 DEF Excuse
  <2>3. KeyHeld(p)' /\ OpenHeld(p)'
    BY <1>1, <1>3, <2>1 DEF Held, KeyHeld, OpenHeld
  <2> DEFINE text == Merged(cliConf[p])
  <2>4. /\ text.key = cliConf[p].got /\ text.base = cliConf[p].base
        /\ text.key \in CliKeys \union {NoKey} /\ text.base \in BOOLEAN /\ cliFile.longest \in Nat
    <3>1. cliConf[p] \in ConfType
      BY <1>1, TypeRecords
    <3> QED
      BY <1>1, <3>1 DEF Merged, ConfType, CliTypeOK
  <2>5. /\ text.key # NoKey => text.key.valid
        /\ ~text.base => Excuse
    BY <1>1, <2>4 DEF Held, KeyHeld, SettingsHeld
  <2>6. cliFile' = Overwritten(text)
    BY <1>5 DEF FillConfig
  <2> HIDE DEF text
  <2>7. \/ cliFile'.kind = "ok" /\ cliFile'.key = text.key /\ cliFile'.base = text.base
        \/ cliFile'.kind = "mixed" /\ cliFile'.key = NoKey /\ cliFile.longest > 0
    BY <2>4, <2>6, OverwrittenIs
  <2>8. FileHolds'
    BY <2>2, <2>5, <2>7 DEF FileHolds, Unreadable
  <2>9. FileWritten'
    <3>1. ASSUME cliFile'.kind = "mixed"
          PROVE  \E o \in CliProc \ {p} : cliConf'[o].file = "written"
      BY <1>5, <2>1, <2>7, <3>1 DEF ConfInv, FileWritten
    <3> QED
      BY <2>1, <2>7, <3>1 DEF FileWritten
  <2> QED
    BY <1>2, <1>4, <2>1, <2>2, <2>3, <2>8, <2>9, OthersHold DEF ConfInv, Held
<1>6. CASE cliConf[p].file # "open"
  <2>1. cliFile' = cliFile /\ cliConf' = cliConf
    BY <1>6 DEF FillConfig
  <2>2. Excuse' = Excuse /\ FileHolds' /\ FileWritten'
    BY <2>1 DEF ConfInv, Excuse, FileHolds, FileWritten, Unreadable
  <2>3. KeyHeld(p)' /\ OpenHeld(p)'
    BY <1>1, <1>3, <1>6, <2>1 DEF Held, KeyHeld, OpenHeld
  <2> QED
    BY <1>2, <1>4, <2>1, <2>2, <2>3, OthersHold DEF ConfInv, Held
<1> QED
  BY <1>5, <1>6

LEMMA ProtectConfigConf ==
  ASSUME ConfInv, TInv', NEW p \in CliProc, ProtectConfig(p)
  PROVE  ConfInv'
<1>1. TInv /\ Held(p) /\ cli[p].pc = "protect"
  BY DEF ProtectConfig, ConfInv, At
<1>2. \E code \in {0, 1} : Exits(p, code)
  BY DEF ProtectConfig
<1>3. WentOn(p, {"exit"})
  BY <1>1, <1>2, GoesMoves DEF CliPlaces, CliSights
<1>4. WentOn(p, WorkPlaces \union {"look"})
  BY <1>3 DEF WentOn, WorkPlaces
<1>5. cliConf[p].file # "open"
  BY <1>1 DEF Held, OpenHeld
<1> QED
  BY <1>4, <1>5, ConfAside DEF ProtectConfig

LEMMA LoginConfInv ==
  ASSUME ConfInv, TInv', NEW p \in CliProc, LoginStep(p)
  PROVE  ConfInv'
<1>1. ASSUME NEW q \in CliProc, NEW key \in CliKeys, Callback(p, q, key) PROVE ConfInv'
  BY <1>1, TakesKeyHeld DEF Callback, SameState
<1>2. ASSUME NEW key \in CliKeys, PasteKey(p, key) PROVE ConfInv'
  BY <1>2, TakesKeyHeld DEF PasteKey
<1> QED
  BY <1>1, <1>2, LoginTimesOutConf, VerifyKeyConf, ForgetKeyConf, RemoveConfigConf, TruncateConfigConf,
     FillConfigConf, ProtectConfigConf DEF LoginStep

LEMMA WorksConf ==
  ASSUME ConfInv, TInv', NEW p \in CliProc, Works(p)
  PROVE  ConfInv'
<1>1. TInv /\ Held(p)
  BY DEF ConfInv
<1>2. cliFile' = cliFile /\ cliConf' = cliConf
  BY DEF Works, StartUploads, Post, FileUploaded, PollTransient, PollRefused, PollAnswer,
         LookOnce, Sleep, Finish, PickName, SaveOutput, Interrupt
<1>3. cli' = cli \/ WentOn(p, WorkPlaces \union {"look"})
  BY <1>1, WorksMoves DEF WentOn
<1>4. CASE cliConf[p].file # "open"
  BY <1>2, <1>3, <1>4, ConfAside
<1>5. CASE cliConf[p].file = "open"
  <2>1. cli[p].pc \in {"fill", "exit"}
    BY <1>1, <1>5 DEF Held, OpenHeld
  <2>2. Exits(p, 130)
    BY <2>1 DEF Works, StartUploads, Post, FileUploaded, PollTransient, PollRefused, PollAnswer,
                LookOnce, Sleep, Finish, PickName, SaveOutput, Interrupt, At
  <2>3. WentOn(p, {"exit"}) /\ cli'[p].code = 130
    BY <1>1, <2>2, GoesMoves DEF CliPlaces, CliSights
  <2>4. WentOn(p, WorkPlaces \union {"look"}) /\ cli'[p].pc = "exit"
    BY <2>3 DEF WentOn, WorkPlaces
  <2> QED
    BY <1>2, <2>3, <2>4, ConfAside
<1> QED
  BY <1>4, <1>5

LEMMA ConfStep == ConfInv /\ [CliNext]_cliVars => ConfInv'
<1> SUFFICES ASSUME ConfInv, [CliNext]_cliVars PROVE ConfInv'
  OBVIOUS
<1>1. TInv /\ TInv'
  BY TypeStep DEF ConfInv
<1>2. CASE UNCHANGED cliVars
  <2>1. PICK p \in CliProc : TRUE
    OBVIOUS
  <2> QED
    BY <1>1, <1>2, <2>1, ConfAside DEF cliVars
<1>3. ASSUME NEW p \in CliProc, Works(p) PROVE ConfInv'
  BY <1>1, <1>3, WorksConf
<1>4. ASSUME NEW p \in CliProc, CliJobMoves(p) \/ \E s \in {"completed", "failed"} : CliJobEnds(p, s) PROVE ConfInv'
  <2>1. cli' = cli /\ cliFile' = cliFile /\ cliConf' = cliConf
    BY <1>4 DEF CliJobMoves, CliJobEnds
  <2> QED
    BY <1>1, <2>1, ConfAside
<1>5. ASSUME NEW p \in CliProc, CliStart(p) \/ LoginStep(p) PROVE ConfInv'
  BY <1>1, <1>5, StartConf, LoginConfInv
<1> QED
  BY <1>2, <1>3, <1>4, <1>5 DEF CliNext, CliStep, Works

LEMMA ConfAlways == CliSpec => []ConfInv
BY ConfInit, ConfStep, PTL DEF CliSpec

LEMMA KeyApproved ==
    ConfInv => StoredKeyIsApproved
BY DEF ConfInv, FileHolds, Held, KeyHeld, StoredKeyIsApproved

(* Whatever logins and logouts run side by side, wherever they are stopped   *)
(* and whatever is pasted, a stored key is one the service accepted; and what*)
(* a login is about to write was approved for that very login, unless it     *)
(* could be pasted.                                                          *)
THEOREM KeysAreApproved == CliSpec => []StoredKeyIsApproved
<1> QED
  BY KeyApproved, ConfAlways, PTL

LEMMA SettingsStay ==
    ConfInv => SettingsSurvive
<1> SUFFICES ASSUME ConfInv PROVE SettingsSurvive
  OBVIOUS
<1>1. ~Unreadable /\ ~cliFile.base => \E p \in CliProc : cliConf[p].torn \/ ~cliConf[p].had
  BY DEF ConfInv, FileHolds, Excuse
<1>2. cliFile.kind = "empty" => \E p \in CliProc :
        cliConf[p].file = "open" /\ (cli[p].pc = "fill" \/ cli[p].code = 130)
  BY DEF ConfInv, FileWritten, Held, OpenHeld
<1>3. cliFile.kind = "mixed" => \E p, q \in CliProc :
        p # q /\ cliConf[p].file = "written" /\ cliConf[q].file = "written"
  BY DEF ConfInv, FileWritten
<1> QED
  BY <1>1, <1>2, <1>3 DEF SettingsSurvive

(* The other settings are lost only through a reader of a file that cannot be*)
(* read: one that a process has emptied and not written, or one that two     *)
(* have written side by side.                                                *)
THEOREM SettingsAreKept == CliSpec => []SettingsSurvive
<1> QED
  BY SettingsStay, ConfAlways, PTL

(* ------------------------------------------------- the request that spends -- *)

(* The files of the groups before the one at work are sent; of that one each *)
(* file is on its way or sent.                                               *)
GroupsSent(p) ==
  \A k \in DOMAIN cli[p].cmd.groups : k < cliSent[p].group =>
    \A i \in DOMAIN cli[p].cmd.groups[k] : cli[p].cmd.groups[k][i] \in cliSent[p].cache

Spending(p) ==
  /\ cli[p].pc \in {"start", "upload", "uploading"} => cli[p].posts = 0
  /\ cli[p].pc \in {"upload", "uploading"} => ~cli[p].cmd.dry /\ cli[p].key # NoKey
  /\ cli[p].pc = "uploading" => \A i \in DOMAIN Group(p) : i \in cliSent[p].flying \/ Group(p)[i] \in cliSent[p].cache
  /\ cliSent[p].cache \subseteq AllFiles(cli[p].cmd)
  /\ GroupsSent(p)
  /\ cli[p].posts \in {0, 1}
  /\ cli[p].posts = 1 => ~cli[p].cmd.dry /\ cli[p].key # NoKey /\ AllFiles(cli[p].cmd) = cliSent[p].cache

SpendInv == TInv /\ \A p \in CliProc : Spending(p)

(* Of the uploads nothing changes, and p goes to none of their places.       *)
PlainPlaces == CliPlaces \ {"start", "upload", "uploading"}
Plain(p) ==
  \/ LoginStep(p)
  \/ PollTransient(p) \/ PollRefused(p) \/ PollAnswer(p) \/ LookOnce(p) \/ Sleep(p)
  \/ Finish(p) \/ PickName(p) \/ SaveOutput(p) \/ Interrupt(p)

LEMMA PlainMoves ==
  ASSUME TInv, NEW p \in CliProc, Plain(p)
  PROVE  WentOn(p, PlainPlaces) /\ cli'[p].key = cli[p].key /\ cli'[p].posts = cli[p].posts /\ cliSent' = cliSent
<1> DEFINE moves == \E pc \in PlainPlaces, seen \in CliSights, code \in {0, 1, 130} :
                      Goes(p, pc) \/ Sees(p, pc, seen) \/ Exits(p, code)
<1>1. cliJob[p] \in CliSights /\ "unknown" \in CliSights
  BY DEF TInv, CliTypeOK, CliSights, CliJobStates
<1>2. LoginPlaces \union {"poll", "sleep", "finish", "pick", "fetch", "exit"} \subseteq PlainPlaces
  BY DEF CliPlaces, PlainPlaces, LoginPlaces
<1>3. moves
  <2>1. CASE LoginStep(p)
    BY <1>1, <1>2, <2>1, LoginMoves
  <2>3. CASE PollTransient(p) \/ PollRefused(p) \/ PollAnswer(p)
    BY <1>1, <1>2, <2>3 DEF PollTransient, PollRefused, PollAnswer
  <2>4. CASE LookOnce(p) \/ Sleep(p) \/ Interrupt(p)
    BY <1>1, <1>2, <2>4 DEF LookOnce, Sleep, Interrupt
  <2>5. CASE Finish(p) \/ PickName(p) \/ SaveOutput(p)
    <3>1. ExitCode(cli[p].seen) \in {0, 1, 130}
      BY DEF ExitCode
    <3>2. Goes(p, "pick") \/ Goes(p, "fetch") \/ Exits(p, ExitCode(cli[p].seen)) \/ Exits(p, 1)
      BY <2>5 DEF Finish, PickName, SaveOutput
    <3> QED
      BY <1>1, <1>2, <3>1, <3>2
  <2> QED
    BY <2>1, <2>3, <2>4, <2>5 DEF Plain
<1>4. PICK pc \in PlainPlaces, seen \in CliSights, code \in {0, 1, 130} :
        Goes(p, pc) \/ Sees(p, pc, seen) \/ Exits(p, code)
  BY <1>3
<1>5. pc \in CliPlaces
  BY DEF PlainPlaces
<1>6. /\ WentOn(p, {pc}) \/ WentOn(p, {"exit"})
      /\ cli'[p].key = cli[p].key /\ cli'[p].posts = cli[p].posts
  BY <1>4, <1>5, GoesMoves
<1>7. WentOn(p, PlainPlaces)
  BY <1>2, <1>6 DEF WentOn
<1>8. cliSent' = cliSent
  BY LoginMoves DEF Plain, PollTransient, PollRefused,
         PollAnswer, LookOnce, Sleep, Finish, PickName, SaveOutput, Interrupt
<1> QED
  BY <1>6, <1>7, <1>8

LEMMA SpendingKept ==
  ASSUME NEW p \in CliProc, Spending(p), cliSent'[p] = cliSent[p],
         \/ cli'[p] = cli[p]
         \/ /\ cli'[p].cmd = cli[p].cmd /\ cli'[p].key = cli[p].key /\ cli'[p].posts = cli[p].posts
            /\ cli'[p].pc \in PlainPlaces
  PROVE  Spending(p)'
<1>1. cli'[p].cmd = cli[p].cmd
  OBVIOUS
<1>2. GroupsSent(p)' = GroupsSent(p) /\ Group(p)' = Group(p)
  BY <1>1 DEF GroupsSent, Group
<1> QED
  BY <1>1, <1>2 DEF Spending, PlainPlaces

LEMMA SpendInit == CliInit => SpendInv
<1> SUFFICES ASSUME CliInit, NEW p \in CliProc PROVE Spending(p)
  BY TInvInit DEF SpendInv
<1>1. cli[p].pc = "start" /\ cli[p].posts = 0 /\ cliSent[p].group = 1 /\ cliSent[p].cache = {}
  BY DEF CliInit
<1>2. cli[p] \in CliProcess
  BY TInvInit DEF TInv, CliTypeOK
<1>3. cli[p].cmd \in CliCommands
  BY <1>2 DEF CliProcess
<1>4. cli[p].cmd.groups \in Seq(Seq(STRING))
  BY <1>3 DEF CliCommands
<1>5. GroupsSent(p)
  BY <1>1, <1>4 DEF GroupsSent
<1> QED
  BY <1>1, <1>5 DEF Spending

LEMMA CommandGroups ==
  ASSUME TInv, NEW p \in CliProc
  PROVE  cli[p].cmd.groups \in Seq(Seq(STRING)) /\ cliSent[p].group \in Nat \ {0}
<1>1. cli[p] \in CliProcess /\ cliSent[p] \in SentType
  BY TypeRecords DEF TInv
<1>2. cli[p].cmd \in CliCommands /\ cliSent[p].group \in Nat \ {0}
  BY <1>1 DEF CliProcess, SentType
<1> QED
  BY <1>2 DEF CliCommands

(* The files of a group the command line names are files of the command line.*)
LEMMA FilesOfGroup ==
  ASSUME NEW c, NEW k \in DOMAIN c.groups, NEW i \in DOMAIN c.groups[k]
  PROVE  c.groups[k][i] \in AllFiles(c)
<1>1. c.groups[k] \in {c.groups[m] : m \in DOMAIN c.groups}
  OBVIOUS
<1>2. c.groups[k][i] \in {c.groups[k][j] : j \in DOMAIN c.groups[k]}
  OBVIOUS
<1> QED
  BY <1>1, <1>2 DEF AllFiles

LEMMA StartUploadsSpending ==
  ASSUME SpendInv, NEW p \in CliProc, StartUploads(p)
  PROVE  Spending(p)'
<1>1. TInv /\ CliTypeOK /\ Spending(p) /\ cli[p].pc = "upload"
  BY DEF SpendInv, TInv, StartUploads, At
<1>2. cli[p].cmd.groups \in Seq(Seq(STRING)) /\ cliSent[p].group \in Nat \ {0}
  BY <1>1, CommandGroups
<1>3. CASE /\ ToUpload(p) = {} /\ cli' = cli
           /\ SentOnly(p, cliSent[p].group + 1, cliSent[p].flying, cliSent[p].cache)
  <2>1. cliSent'[p].group = cliSent[p].group + 1 /\ cliSent'[p].cache = cliSent[p].cache
    BY <1>3 DEF SentOnly, IsSent
  <2>2. \A i \in DOMAIN Group(p) : Group(p)[i] \in cliSent[p].cache
    BY <1>3 DEF ToUpload
  <2>3. GroupsSent(p)'
    <3> SUFFICES ASSUME NEW k \in DOMAIN cli[p].cmd.groups, k < cliSent[p].group + 1,
                        NEW i \in DOMAIN cli[p].cmd.groups[k]
                 PROVE  cli[p].cmd.groups[k][i] \in cliSent[p].cache
      BY <1>3, <2>1 DEF GroupsSent
    <3>1. k \in Nat
      BY <1>2
    <3>2. CASE k = cliSent[p].group
      BY <2>2, <3>2 DEF Group
    <3>3. CASE k < cliSent[p].group
      BY <1>1, <3>3 DEF Spending, GroupsSent
    <3> QED
      BY <1>2, <3>1, <3>2, <3>3
  <2> QED
    BY <1>1, <1>3, <2>1, <2>3 DEF Spending
<1>4. CASE /\ Goes(p, "uploading")
           /\ SentOnly(p, cliSent[p].group, ToUpload(p), cliSent[p].cache)
  <2>1. Only(p, "uploading", cli[p].key, cli[p].posts, cli[p].seen, cli[p].code)
    BY <1>1, <1>4, GoesOnly, TypeRecords DEF CliPlaces
  <2>2. /\ cli'[p].pc = "uploading" /\ cli'[p].cmd = cli[p].cmd /\ cli'[p].key = cli[p].key /\ cli'[p].posts = cli[p].posts
        /\ cliSent'[p].group = cliSent[p].group /\ cliSent'[p].flying = ToUpload(p) /\ cliSent'[p].cache = cliSent[p].cache
    BY <1>4, <2>1 DEF Only, IsProcess, SentOnly, IsSent
  <2>3. Group(p)' = Group(p) /\ GroupsSent(p)' = GroupsSent(p)
    BY <2>2 DEF Group, GroupsSent
  <2>4. \A i \in DOMAIN Group(p) : i \in ToUpload(p) \/ Group(p)[i] \in cliSent[p].cache
    BY DEF ToUpload
  <2> QED
    BY <1>1, <2>2, <2>3, <2>4 DEF Spending
<1> QED
  BY <1>1, <1>3, <1>4, StartUploadsSent

LEMMA FileUploadedSpending ==
  ASSUME SpendInv, NEW p \in CliProc, NEW i, FileUploaded(p, i)
  PROVE  Spending(p)'
<1> DEFINE cache == cliSent[p].cache \union {Group(p)[i]}
<1>1. TInv /\ CliTypeOK /\ Spending(p) /\ FlyingOf(p) /\ cli[p].pc = "uploading" /\ i \in cliSent[p].flying
  BY DEF SpendInv, TInv, FileUploaded, At
<1>2. cli[p].cmd.groups \in Seq(Seq(STRING)) /\ cliSent[p].group \in Nat \ {0}
  BY <1>1, CommandGroups
<1>3. cliSent[p].group \in DOMAIN cli[p].cmd.groups /\ i \in DOMAIN Group(p)
  BY <1>1 DEF FlyingOf
<1>4. cache \subseteq AllFiles(cli[p].cmd)
  BY <1>1, <1>3, FilesOfGroup DEF Spending, Group
<1>5. \A j \in DOMAIN Group(p) : j \in cliSent[p].flying \ {i} \/ Group(p)[j] \in cache
  BY <1>1 DEF Spending
<1>6. cli[p].posts = 0
  BY <1>1 DEF Spending
<1>7. CASE cli' = cli /\ SentOnly(p, cliSent[p].group, cliSent[p].flying \ {i}, cache)
  <2>1. cliSent'[p].group = cliSent[p].group /\ cliSent'[p].flying = cliSent[p].flying \ {i} /\ cliSent'[p].cache = cache
    BY <1>7 DEF SentOnly, IsSent
  <2>2. Group(p)' = Group(p)
    BY <1>7, <2>1 DEF Group
  <2>3. GroupsSent(p)'
    BY <1>1, <1>7, <2>1 DEF Spending, GroupsSent
  <2> HIDE DEF cache
  <2> QED
    BY <1>1, <1>4, <1>5, <1>6, <1>7, <2>1, <2>2, <2>3 DEF Spending
<1>8. CASE Goes(p, "upload") /\ cliSent[p].flying = {i} /\ SentOnly(p, cliSent[p].group + 1, {}, cache)
  <2>1. Only(p, "upload", cli[p].key, cli[p].posts, cli[p].seen, cli[p].code)
    BY <1>1, <1>8, GoesOnly, TypeRecords DEF CliPlaces
  <2>2. /\ cli'[p].pc = "upload" /\ cli'[p].cmd = cli[p].cmd /\ cli'[p].key = cli[p].key /\ cli'[p].posts = cli[p].posts
        /\ cliSent'[p].group = cliSent[p].group + 1 /\ cliSent'[p].cache = cache
    BY <1>8, <2>1 DEF Only, IsProcess, SentOnly, IsSent
  <2>3. \A j \in DOMAIN Group(p) : Group(p)[j] \in cache
    BY <1>5, <1>8
  <2>4. GroupsSent(p)'
    <3> SUFFICES ASSUME NEW k \in DOMAIN cli[p].cmd.groups, k < cliSent[p].group + 1,
                        NEW j \in DOMAIN cli[p].cmd.groups[k]
                 PROVE  cli[p].cmd.groups[k][j] \in cache
      BY <2>2 DEF GroupsSent
    <3>1. k \in Nat
      BY <1>2
    <3>2. CASE k = cliSent[p].group
      BY <2>3, <3>2 DEF Group
    <3>3. CASE k < cliSent[p].group
      BY <1>1, <3>3 DEF Spending, GroupsSent
    <3> QED
      BY <1>2, <3>1, <3>2, <3>3
  <2> HIDE DEF cache
  <2> QED
    BY <1>1, <1>4, <1>6, <2>2, <2>4 DEF Spending
<1>9. CASE Exits(p, 1) /\ cliSent' = cliSent
  <2>1. WentOn(p, {"exit"}) /\ cli'[p].key = cli[p].key /\ cli'[p].posts = cli[p].posts
    BY <1>1, <1>9, GoesMoves DEF CliPlaces, CliSights
  <2> QED
    BY <1>1, <1>9, <2>1, SpendingKept DEF WentOn, PlainPlaces, CliPlaces
<1> QED
  BY <1>1, <1>7, <1>8, <1>9, FileUploadedSent

LEMMA PostSpending ==
  ASSUME SpendInv, NEW p \in CliProc, Post(p)
  PROVE  WentOn(p, PlainPlaces) /\ Spending(p)'
<1>1. TInv /\ Spending(p) /\ cli[p].pc = "upload" /\ cliSent[p].group > Len(cli[p].cmd.groups) /\ cliSent' = cliSent
  BY DEF SpendInv, Post, At, UploadsDone
<1>2. cli[p].cmd.groups \in Seq(Seq(STRING)) /\ cliSent[p].group \in Nat \ {0}
  BY <1>1, CommandGroups
<1>3. AllFiles(cli[p].cmd) \subseteq cliSent[p].cache
  <2>1. \A k \in DOMAIN cli[p].cmd.groups : k < cliSent[p].group
    BY <1>1, <1>2
  <2> QED
    BY <1>1, <2>1 DEF Spending, GroupsSent, AllFiles
<1>4. \E pc \in {"exit", "poll", "finish"}, seen \in CliSights, code \in {0, 1, 130} : Posts(p, pc, seen, code)
  BY DEF Post, CliSights, CliJobStates
<1>5. PICK pc \in {"exit", "poll", "finish"}, seen \in CliSights, code \in {0, 1, 130} : Posts(p, pc, seen, code)
  BY <1>4
<1>6. pc \in CliPlaces /\ pc \in PlainPlaces
  BY DEF CliPlaces, PlainPlaces
<1>7. WentOn(p, {pc}) /\ cli'[p].key = cli[p].key /\ cli'[p].posts = cli[p].posts + 1
  <2>1. cli \in [CliProc -> CliProcess]
    BY <1>1, TypeRecords DEF TInv
  <2>2. Only(p, pc, cli[p].key, cli[p].posts + 1, seen, code)
    BY <1>5, <1>6, <2>1, PostsOnly
  <2> QED
    BY <2>2 DEF Only, IsProcess, WentOn
<1>8. cli'[p].pc \in PlainPlaces /\ cli'[p].cmd = cli[p].cmd /\ cli'[p].posts = 1
  BY <1>1, <1>6, <1>7 DEF WentOn, Spending
<1>9. GroupsSent(p)' = GroupsSent(p)
  BY <1>1, <1>8 DEF GroupsSent
<1>10. Spending(p)'
  <2>1. ~cli[p].cmd.dry /\ cli[p].key # NoKey /\ AllFiles(cli[p].cmd) = cliSent[p].cache
    BY <1>1, <1>3 DEF Spending
  <2>2. GroupsSent(p)' /\ cliSent'[p].cache = cliSent[p].cache
    BY <1>1, <1>9 DEF Spending
  <2> QED
    BY <1>7, <1>8, <2>1, <2>2 DEF Spending, PlainPlaces
<1> QED
  BY <1>6, <1>7, <1>10 DEF WentOn

LEMMA StartSpending ==
  ASSUME SpendInv, NEW p \in CliProc, CliStart(p)
  PROVE  Spending(p)'
<1>1. TInv /\ Spending(p) /\ cliSent' = cliSent
  BY DEF SpendInv, CliStart
<1>2. /\ cli'[p].cmd = cli[p].cmd /\ cli'[p].posts = cli[p].posts /\ cli[p].pc = "start"
      /\ cli'[p].pc \in {"approve", "forget", "exit", "upload", "look", "poll"}
      /\ cli'[p].pc = "upload" => ~cli[p].cmd.dry /\ cli'[p].key # NoKey
  BY <1>1, StartMoves DEF WentOn
<1>3. cli[p].posts = 0
  BY <1>1, <1>2 DEF Spending
<1>4. GroupsSent(p)' = GroupsSent(p)
  BY <1>1, <1>2 DEF GroupsSent
<1> QED
  BY <1>1, <1>2, <1>3, <1>4 DEF Spending

LEMMA SpendStep == SpendInv /\ [CliNext]_cliVars => SpendInv'
<1> SUFFICES ASSUME SpendInv, [CliNext]_cliVars, NEW q \in CliProc PROVE Spending(q)'
  BY TypeStep DEF SpendInv
<1>1. TInv /\ CliTypeOK /\ Spending(q)
  BY DEF SpendInv, TInv
<1>2. CASE cli' = cli /\ cliSent' = cliSent
  BY <1>1, <1>2, SpendingKept
<1>3. ASSUME NEW p \in CliProc, Plain(p) PROVE Spending(q)'
  BY <1>1, <1>3, PlainMoves, SpendingKept DEF WentOn
<1>4. ASSUME NEW p \in CliProc, CliStart(p) PROVE Spending(q)'
  <2>1. cliSent' = cliSent /\ \A o \in CliProc \ {p} : cli'[o] = cli[o]
    BY <1>1, <1>4, StartMoves DEF CliStart, WentOn
  <2> QED
    BY <1>1, <1>4, <2>1, StartSpending, SpendingKept
<1>5. ASSUME NEW p \in CliProc, StartUploads(p) PROVE Spending(q)'
  <2>1. CASE q = p
    BY <1>5, <2>1, StartUploadsSpending
  <2>2. CASE q # p
    <3>1. cliSent'[q] = cliSent[q]
      BY <1>1, <1>5, <2>2, StartUploadsSent DEF SentOnly
    <3>2. cli'[q] = cli[q]
      BY <1>1, <1>5, <2>2, WorksMoves DEF Works, WentOn
    <3> QED
      BY <1>1, <3>1, <3>2, SpendingKept
  <2> QED
    BY <2>1, <2>2
<1>6. ASSUME NEW p \in CliProc, NEW i \in cliSent[p].flying, FileUploaded(p, i) PROVE Spending(q)'
  <2>1. CASE q = p
    BY <1>6, <2>1, FileUploadedSpending
  <2>2. CASE q # p
    <3>1. FlyingOf(p)
      BY <1>1 DEF TInv
    <3>2. cliSent'[q] = cliSent[q]
      BY <1>1, <1>6, <2>2, <3>1, FileUploadedSent DEF SentOnly
    <3>3. cli'[q] = cli[q]
      BY <1>1, <1>6, <2>2, WorksMoves DEF Works, WentOn
    <3> QED
      BY <1>1, <3>2, <3>3, SpendingKept
  <2> QED
    BY <2>1, <2>2
<1>7. ASSUME NEW p \in CliProc, Post(p) PROVE Spending(q)'
  <2>1. WentOn(p, PlainPlaces) /\ Spending(p)' /\ cliSent' = cliSent
    BY <1>7, PostSpending DEF Post
  <2> QED
    BY <1>1, <2>1, SpendingKept DEF WentOn
<1>8. ASSUME NEW p \in CliProc, CliJobMoves(p) \/ \E s \in {"completed", "failed"} : CliJobEnds(p, s) PROVE Spending(q)'
  BY <1>2, <1>8 DEF CliJobMoves, CliJobEnds
<1> QED
  BY <1>2, <1>3, <1>4, <1>5, <1>6, <1>7, <1>8 DEF CliNext, CliStep, Plain, cliVars

LEMMA SpendAlways == CliSpec => []SpendInv
BY SpendInit, SpendStep, PTL DEF CliSpec

LEMMA SpentOnce ==
    SpendInv => SpendsOnce
BY DEF SpendInv, Spending, SpendsOnce

(* However many files the command line names, however its uploads end and    *)
(* whatever the other processes do, the request that spends is sent at most  *)
(* once, with a key, and with every file uploaded.                           *)
THEOREM SpendsAtMostOnce == CliSpec => []SpendsOnce
<1> QED
  BY SpentOnce, SpendAlways, PTL

(* ------------------------------------------------------ what is saved stays -- *)

(* The outputs after the first k are on disk.                                *)
SavedFrom(p, k) == \A i \in k + 1 .. CliOutputs : \E n \in 0 .. CliNames : cliDir[n] = <<p, i>>

JobSeen(p) ==
  /\ cli[p].seen = "completed" => cliJob[p] = "completed"
  /\ cli[p].seen = "result" => cliJob[p] = "none"
  /\ cli[p].cmd.op # "job" /\ cli[p].posts = 0 => cliJob[p] = "none"

Saving(p) ==
  /\ cli[p].cmd.op \in {"login", "logout"} => cli[p].cmd.mode = "detach"
  /\ cli[p].pc = "look" => cli[p].cmd.mode = "detach"
  /\ cli[p].pc \in {"upload", "uploading"} => cli[p].cmd.op \in {"generate", "render"}
  /\ cli[p].pc \in {"pick", "fetch"} => SavedFrom(p, cliSave[p].left)
  /\ JobSeen(p)
  /\ cli[p].pc = "exit" /\ cli[p].code = 0 /\ cli[p].cmd.mode = "save" /\ ~cli[p].cmd.dry =>
       Worked(cli[p].seen) /\ SavedFrom(p, 0)

SaveInv == ConfInv /\ SpendInv /\ \A p \in CliProc : Saving(p)

LEMMA SaveInit == CliInit => SaveInv
<1> SUFFICES ASSUME CliInit, NEW p \in CliProc PROVE Saving(p)
  BY ConfInit, SpendInit DEF SaveInv
<1>1. PICK commands \in CliSessions :
        /\ cliJob = [q \in CliProc |-> commands[q].job]
        /\ cli = [q \in CliProc |-> [pc |-> "start", cmd |-> commands[q], key |-> NoKey, posts |-> 0,
                                     seen |-> "none", code |-> 0]]
  BY DEF CliInit
<1>2. /\ commands[p].op # "job" => commands[p].job = "none"
      /\ commands[p].op \in {"login", "logout"} => commands[p].mode = "detach"
  BY CliCommandLines
<1> QED
  BY <1>1, <1>2 DEF Saving, JobSeen

LEMMA SavedIsThere == \A p, i : <<p, i>> # Absent
BY DEF Absent

LEMMA SavedStays ==
  ASSUME TInv, CliNext, NEW p \in CliProc, NEW k, SavedFrom(p, k)
  PROVE  SavedFrom(p, k)'
<1>1. \A n \in 0 .. CliNames : cliDir[n] # Absent => cliDir'[n] = cliDir[n]
  <2>1. [\A n \in 0 .. CliNames : cliDir[n] # Absent => cliDir'[n] = cliDir[n]]_cliVars
    BY ClobberStep
  <2> QED
    BY <2>1 DEF cliVars
<1> QED
  BY <1>1, SavedIsThere DEF SavedFrom

(* p stands still, or goes on to a place where nothing is saved yet.         *)
LEMMA SavingKept ==
  ASSUME SaveInv, CliNext, NEW p \in CliProc, cli'[p] = cli[p], cliSave'[p] = cliSave[p], cliJob'[p] = cliJob[p]
  PROVE  Saving(p)'
<1>1. TInv /\ Saving(p)
  BY DEF SaveInv, ConfInv
<1>2. \A k : SavedFrom(p, k) => SavedFrom(p, k)'
  BY <1>1, SavedStays
<1>3. JobSeen(p)'
  BY <1>1 DEF Saving, JobSeen
<1>4. cli[p].pc \in {"pick", "fetch"} => SavedFrom(p, cliSave[p].left)'
  BY <1>1, <1>2 DEF Saving, SavedFrom
<1>5. SavedFrom(p, 0) => SavedFrom(p, 0)'
  BY <1>2
<1> QED
  BY <1>1, <1>3, <1>4, <1>5 DEF Saving, SavedFrom

LEMMA SavingOn ==
  ASSUME SaveInv, NEW p \in CliProc, cli'[p].cmd = cli[p].cmd, cliJob'[p] = cliJob[p],
         cli'[p].posts = cli[p].posts, cli'[p].seen \in {cli[p].seen, cliJob[p], "unknown"},
         cli'[p].pc \notin {"pick", "fetch"}, cli'[p].pc = "look" => cli[p].cmd.mode = "detach",
         cli'[p].pc \in {"upload", "uploading"} => cli[p].cmd.op \in {"generate", "render"},
         cli'[p].pc = "exit" => cli'[p].code # 0 \/ cli[p].cmd.mode # "save" \/ cli[p].cmd.dry
  PROVE  Saving(p)'
<1>1. Saving(p) /\ cliJob[p] \in CliJobStates
  BY DEF SaveInv, ConfInv, TInv, CliTypeOK
<1>2. JobSeen(p)'
  BY <1>1 DEF Saving, JobSeen, CliJobStates, CliActive
<1> QED
  BY <1>1, <1>2 DEF Saving

(* The login steps, of a command that saves nothing.                         *)
LEMMA LoginSaving ==
  ASSUME SaveInv, NEW p \in CliProc, LoginStep(p)
  PROVE  Saving(p)'
<1>1. TInv /\ KeyHeld(p) /\ Saving(p)
  BY DEF SaveInv, ConfInv, Held
<1>2. cli[p].pc \in {"approve", "forget"} \union LoginPlaces /\ cliJob' = cliJob
  BY LoginMoves
<1>3. cli[p].cmd.mode # "save"
  BY <1>1, <1>2 DEF KeyHeld, Saving, LoginPlaces
<1>4. PICK pc \in LoginPlaces, code \in {0, 1} : Goes(p, pc) \/ Exits(p, code)
  BY LoginMoves
<1>5. pc \in CliPlaces /\ "none" \in CliSights
  BY DEF CliPlaces, CliSights, CliJobStates, LoginPlaces
<1>6. /\ WentOn(p, {pc}) \/ WentOn(p, {"exit"})
      /\ cli'[p].posts = cli[p].posts /\ cli'[p].seen = cli[p].seen
  BY <1>1, <1>4, <1>5, GoesMoves
<1>7. cli'[p].cmd = cli[p].cmd /\ cli'[p].pc \in LoginPlaces \union {"exit"}
  BY <1>6 DEF WentOn
<1> QED
  BY <1>2, <1>3, <1>6, <1>7, SavingOn DEF LoginPlaces

LEMMA StartSaving ==
  ASSUME SaveInv, NEW p \in CliProc, CliStart(p)
  PROVE  Saving(p)'
<1>1. TInv /\ cliJob' = cliJob
  BY DEF SaveInv, ConfInv, CliStart
<1>2. /\ cli'[p].cmd = cli[p].cmd /\ cli'[p].posts = cli[p].posts /\ cli'[p].seen = cli[p].seen
      /\ cli'[p].pc \in {"approve", "forget", "exit", "upload", "look", "poll"}
      /\ cli'[p].pc = "upload" => cli[p].cmd.op \in {"generate", "render"}
      /\ cli'[p].pc = "look" => cli[p].cmd.mode = "detach"
      /\ cli'[p].pc = "exit" => cli'[p].code # 0 \/ cli[p].cmd.dry
  BY <1>1, StartMoves DEF WentOn
<1> QED
  BY <1>1, <1>2, SavingOn

LEMMA UploadSaving ==
  ASSUME SaveInv, CliNext, NEW p \in CliProc, StartUploads(p) \/ \E i \in cliSent[p].flying : FileUploaded(p, i)
  PROVE  Saving(p)'
<1>1. TInv /\ cliJob' = cliJob /\ cliSave' = cliSave /\ cli[p].cmd.op \in {"generate", "render"}
  BY DEF SaveInv, ConfInv, Saving, StartUploads, FileUploaded, At
<1>2. cli' = cli \/ \E pc \in {"upload", "uploading"} : Goes(p, pc) \/ Exits(p, 1)
  BY DEF StartUploads, FileUploaded
<1>3. CASE cli' = cli
  BY <1>1, <1>3, SavingKept
<1>4. CASE \E pc \in {"upload", "uploading"} : Goes(p, pc) \/ Exits(p, 1)
  <2>1. PICK pc \in {"upload", "uploading"} : Goes(p, pc) \/ Exits(p, 1)
    BY <1>4
  <2>2. pc \in CliPlaces /\ "none" \in CliSights
    BY DEF CliPlaces, CliSights, CliJobStates
  <2>3. /\ WentOn(p, {pc}) \/ (WentOn(p, {"exit"}) /\ cli'[p].code = 1)
        /\ cli'[p].posts = cli[p].posts /\ cli'[p].seen = cli[p].seen
    BY <1>1, <2>1, <2>2, GoesMoves
  <2>4. /\ cli'[p].cmd = cli[p].cmd /\ cli'[p].pc \in {"upload", "uploading", "exit"}
        /\ cli'[p].pc = "exit" => cli'[p].code # 0
    BY <2>3 DEF WentOn
  <2> QED
    BY <1>1, <2>3, <2>4, SavingOn
<1> QED
  BY <1>2, <1>3, <1>4

LEMMA PostSaving ==
  ASSUME SaveInv, NEW p \in CliProc, Post(p)
  PROVE  Saving(p)'
<1>1. TInv /\ Saving(p) /\ Spending(p) /\ cli[p].pc = "upload"
  BY DEF SaveInv, ConfInv, SpendInv, Post, At
<1>2. cli[p].posts = 0 /\ cli[p].cmd.op # "job" /\ cliJob[p] = "none" /\ cliJob \in [CliProc -> CliJobStates]
  BY <1>1 DEF Saving, JobSeen, Spending, TInv, CliTypeOK
<1>3. ASSUME NEW pc \in {"exit", "poll", "finish"}, NEW seen \in CliSights, NEW code \in {0, 1},
             Posts(p, pc, seen, code)
      PROVE  /\ cli'[p].pc = pc /\ cli'[p].cmd = cli[p].cmd /\ cli'[p].seen = seen /\ cli'[p].code = code
             /\ cli'[p].posts = 1
  <2>1. pc \in CliPlaces /\ cli \in [CliProc -> CliProcess] /\ code \in {0, 1, 130}
    BY <1>1, TypeRecords DEF TInv, CliPlaces
  <2>2. Only(p, pc, cli[p].key, cli[p].posts + 1, seen, code)
    BY <1>3, <2>1, PostsOnly
  <2> QED
    BY <1>2, <2>2 DEF Only, IsProcess
<1>4. "none" \in CliSights /\ "result" \in CliSights
  BY DEF CliSights, CliJobStates
<1>5. /\ cli'[p].cmd = cli[p].cmd /\ cli'[p].posts = 1 /\ cli'[p].pc \in {"exit", "poll", "finish"}
      /\ cli'[p].pc = "exit" => cli[p].cmd.mode = "detach" \/ cli'[p].code = 1
      /\ cli'[p].seen \in {"none", "result"}
      /\ cli'[p].seen = "result" => cliJob' = cliJob
  <2>1. CASE Posts(p, "exit", "none", 1)
    BY <1>3, <1>4, <2>1
  <2>2. CASE cli[p].cmd.mode = "detach" /\ Posts(p, "exit", "none", 0)
    BY <1>3, <1>4, <2>2
  <2>3. CASE Posts(p, "poll", "none", 0)
    BY <1>3, <1>4, <2>3
  <2>4. CASE Posts(p, "finish", "result", 0) /\ UNCHANGED cliJob
    BY <1>3, <1>4, <2>4
  <2> QED
    BY <2>1, <2>2, <2>3, <2>4 DEF Post
<1>6. JobSeen(p)'
  BY <1>2, <1>5 DEF JobSeen
<1> QED
  BY <1>1, <1>5, <1>6 DEF Saving

LEMMA WaitSaving ==
  ASSUME SaveInv, NEW p \in CliProc,
         PollTransient(p) \/ PollRefused(p) \/ PollAnswer(p) \/ LookOnce(p) \/ Sleep(p) \/ Interrupt(p)
  PROVE  Saving(p)'
<1>1. TInv /\ Saving(p) /\ cliJob' = cliJob
  BY DEF SaveInv, ConfInv, PollTransient, PollRefused, PollAnswer, LookOnce, Sleep, Interrupt
<1>2. cliJob[p] \in CliSights /\ "unknown" \in CliSights
  BY <1>1 DEF TInv, CliTypeOK, CliSights, CliJobStates
<1>3. \/ \E pc \in {"poll", "sleep", "finish"}, seen \in {cliJob[p], "unknown"} : Goes(p, pc) \/ Sees(p, pc, seen)
      \/ \E code \in {0, 1, 130} : Exits(p, code) /\ (code = 0 => cli[p].cmd.mode = "detach")
  <2>1. CASE PollTransient(p) \/ PollRefused(p) \/ PollAnswer(p) \/ Sleep(p)
    BY <2>1 DEF PollTransient, PollRefused, PollAnswer, Sleep
  <2>2. CASE LookOnce(p)
    BY <1>1, <2>2 DEF LookOnce, At, Saving
  <2>3. CASE Interrupt(p)
    BY <2>3 DEF Interrupt
  <2> QED
    BY <2>1, <2>2, <2>3
<1>4. CASE \E pc \in {"poll", "sleep", "finish"}, seen \in {cliJob[p], "unknown"} : Goes(p, pc) \/ Sees(p, pc, seen)
  <2>1. PICK pc \in {"poll", "sleep", "finish"}, seen \in {cliJob[p], "unknown"} : Goes(p, pc) \/ Sees(p, pc, seen)
    BY <1>4
  <2>2. pc \in CliPlaces /\ seen \in CliSights
    BY <1>2 DEF CliPlaces
  <2>3. WentOn(p, {pc}) /\ cli'[p].posts = cli[p].posts /\ cli'[p].seen \in {cli[p].seen, seen}
    BY <1>1, <2>1, <2>2, GoesMoves
  <2>4. cli'[p].cmd = cli[p].cmd /\ cli'[p].pc \in {"poll", "sleep", "finish"}
    BY <2>3 DEF WentOn
  <2> QED
    BY <1>1, <2>3, <2>4, SavingOn
<1>5. CASE \E code \in {0, 1, 130} : Exits(p, code) /\ (code = 0 => cli[p].cmd.mode = "detach")
  <2>1. PICK code \in {0, 1, 130} : Exits(p, code) /\ (code = 0 => cli[p].cmd.mode = "detach")
    BY <1>5
  <2>2. WentOn(p, {"exit"}) /\ cli'[p].posts = cli[p].posts /\ cli'[p].seen = cli[p].seen /\ cli'[p].code = code
    BY <1>1, <1>2, <2>1, GoesMoves DEF CliPlaces
  <2>3. cli'[p].cmd = cli[p].cmd /\ cli'[p].pc = "exit"
    BY <2>2 DEF WentOn
  <2> QED
    BY <1>1, <2>1, <2>2, <2>3, SavingOn
<1> QED
  BY <1>3, <1>4, <1>5

LEMMA FinishSaving ==
  ASSUME SaveInv, NEW p \in CliProc, Finish(p)
  PROVE  Saving(p)'
<1>1. TInv /\ CliTypeOK /\ Saving(p) /\ cliJob' = cliJob
  BY DEF SaveInv, ConfInv, TInv, Finish
<1>2. CASE /\ cli[p].cmd.mode = "save" /\ Goes(p, "pick")
           /\ SaveOnly(p, CliOutputs, cliSave[p].name, cliSave[p].used)
  <2>1. Only(p, "pick", cli[p].key, cli[p].posts, cli[p].seen, cli[p].code)
    BY <1>1, <1>2, GoesOnly, TypeRecords DEF CliPlaces
  <2>2. /\ cli'[p].pc = "pick" /\ cli'[p].cmd = cli[p].cmd /\ cli'[p].posts = cli[p].posts
        /\ cli'[p].seen = cli[p].seen /\ cliSave'[p].left = CliOutputs
    BY <1>2, <2>1 DEF Only, IsProcess, SaveOnly, IsSave
  <2>3. SavedFrom(p, cliSave[p].left)' /\ JobSeen(p)'
    BY <1>1, <2>2 DEF SavedFrom, Saving, JobSeen
  <2> QED
    BY <1>1, <1>2, <2>2, <2>3 DEF Saving
<1>3. CASE /\ cli[p].cmd.mode # "save" \/ ~Worked(cli[p].seen)
           /\ Exits(p, ExitCode(cli[p].seen)) /\ cliSave' = cliSave
  <2>1. ExitCode(cli[p].seen) \in {0, 1, 130} /\ "none" \in CliSights /\ "exit" \in CliPlaces
    BY DEF ExitCode, CliSights, CliJobStates, CliPlaces
  <2>2. PICK code \in {0, 1, 130} : code = ExitCode(cli[p].seen) /\ Exits(p, code)
    BY <1>3, <2>1
  <2>3. WentOn(p, {"exit"}) /\ cli'[p].posts = cli[p].posts /\ cli'[p].seen = cli[p].seen /\ cli'[p].code = code
    BY <1>1, <2>1, <2>2, GoesMoves
  <2>4. /\ cli'[p].cmd = cli[p].cmd /\ cli'[p].pc = "exit"
        /\ cli[p].cmd.mode = "save" => cli'[p].code # 0
    BY <1>3, <2>2, <2>3 DEF WentOn, ExitCode
  <2> QED
    BY <1>1, <2>3, <2>4, SavingOn
<1> QED
  BY <1>1, <1>2, <1>3, FinishSave

LEMMA PickSaving ==
  ASSUME SaveInv, CliNext, NEW p \in CliProc, PickName(p)
  PROVE  Saving(p)'
<1>1. TInv /\ CliTypeOK /\ Saving(p) /\ cliJob' = cliJob /\ cli[p].pc = "pick"
  BY DEF SaveInv, ConfInv, TInv, PickName, At
<1>2. SavedFrom(p, cliSave[p].left)
  BY <1>1 DEF Saving
<1>4. CASE cliSave[p].left = 0 /\ Exits(p, ExitCode(cli[p].seen)) /\ cliSave' = cliSave
  <2>1. ExitCode(cli[p].seen) \in {0, 1, 130} /\ "none" \in CliSights /\ "exit" \in CliPlaces
    BY DEF ExitCode, CliSights, CliJobStates, CliPlaces
  <2>2. /\ WentOn(p, {"exit"}) /\ cli'[p].posts = cli[p].posts /\ cli'[p].seen = cli[p].seen
        /\ cli'[p].code = ExitCode(cli[p].seen)
    BY <1>1, <1>4, <2>1, GoesMoves
  <2>3. /\ cli'[p].cmd = cli[p].cmd /\ cli'[p].pc = "exit"
        /\ cli'[p].code = 0 => Worked(cli[p].seen)
    BY <2>2 DEF WentOn, ExitCode
  <2>4. SavedFrom(p, 0)
    BY <1>2, <1>4
  <2>5. SavedFrom(p, 0)'
    BY <1>1, <2>4, SavedStays
  <2>6. JobSeen(p)'
    BY <1>1, <2>2, <2>3 DEF Saving, JobSeen
  <2> QED
    BY <1>1, <2>2, <2>3, <2>5, <2>6 DEF Saving
<1>5. CASE /\ cliSave[p].left > 0 /\ Goes(p, "fetch")
           /\ \E n \in FreeNames(p) : SaveOnly(p, cliSave[p].left, n, cliSave[p].used \union {n})
  <2>1. Only(p, "fetch", cli[p].key, cli[p].posts, cli[p].seen, cli[p].code)
    BY <1>1, <1>5, GoesOnly, TypeRecords DEF CliPlaces
  <2>2. /\ cli'[p].pc = "fetch" /\ cli'[p].cmd = cli[p].cmd /\ cli'[p].posts = cli[p].posts
        /\ cli'[p].seen = cli[p].seen /\ cliSave'[p].left = cliSave[p].left /\ cliDir' = cliDir
    BY <1>5, <2>1 DEF Only, IsProcess, SaveOnly, IsSave, PickName
  <2>3. SavedFrom(p, cliSave[p].left)' /\ JobSeen(p)'
    BY <1>1, <1>2, <2>2 DEF SavedFrom, Saving, JobSeen
  <2> QED
    BY <1>1, <2>2, <2>3 DEF Saving
<1> QED
  BY <1>1, <1>4, <1>5, PickNameSave

LEMMA OutputSaving ==
  ASSUME SaveInv, CliNext, NEW p \in CliProc, SaveOutput(p)
  PROVE  Saving(p)'
<1>1. TInv /\ CliTypeOK /\ Saving(p) /\ Fetching(p) /\ cliJob' = cliJob /\ cli[p].pc = "fetch"
  BY DEF SaveInv, ConfInv, TInv, SaveOutput, At
<1>2. SavedFrom(p, cliSave[p].left) /\ cliSave[p].left > 0
  BY <1>1 DEF Saving, Fetching
<1>3. cliSave[p] \in SaveType
  BY <1>1, TypeRecords
<1>4. cliSave[p].left \in 1 .. CliOutputs /\ cliSave[p].name \in 0 .. CliNames
  BY <1>2, <1>3 DEF SaveType
<1>5. CASE /\ cliDir[cliSave[p].name] = Absent /\ Goes(p, "pick")
           /\ cliDir' = [cliDir EXCEPT ![cliSave[p].name] = <<p, cliSave[p].left>>]
           /\ SaveOnly(p, cliSave[p].left - 1, cliSave[p].name, cliSave[p].used)
  <2>1. Only(p, "pick", cli[p].key, cli[p].posts, cli[p].seen, cli[p].code)
    BY <1>1, <1>5, GoesOnly, TypeRecords DEF CliPlaces
  <2>2. /\ cli'[p].pc = "pick" /\ cli'[p].cmd = cli[p].cmd /\ cli'[p].posts = cli[p].posts
        /\ cli'[p].seen = cli[p].seen /\ cliSave'[p].left = cliSave[p].left - 1
    BY <1>5, <2>1 DEF Only, IsProcess, SaveOnly, IsSave
  <2>3. cliDir'[cliSave[p].name] = <<p, cliSave[p].left>>
    <3>1. cliSave[p].name \in DOMAIN cliDir
      BY <1>1, <1>4 DEF CliTypeOK
    <3> QED
      BY <1>5, <3>1
  <2>4. SavedFrom(p, cliSave[p].left)'
    <3>1. SavedFrom(p, cliSave[p].left)
      BY <1>2
    <3> SUFFICES ASSUME NEW i \in cliSave'[p].left + 1 .. CliOutputs
                 PROVE  \E n \in 0 .. CliNames : cliDir'[n] = <<p, i>>
      BY DEF SavedFrom
    <3>2. CASE i = cliSave[p].left
      BY <1>4, <2>3, <3>2
    <3>3. CASE i # cliSave[p].left
      <4>1. i \in cliSave[p].left + 1 .. CliOutputs
        BY <1>4, <2>2, <3>3
      <4>2. PICK n \in 0 .. CliNames : cliDir[n] = <<p, i>>
        BY <3>1, <4>1 DEF SavedFrom
      <4>3. n # cliSave[p].name
        BY <1>5, <4>2, SavedIsThere
      <4>4. cliDir'[n] = cliDir[n]
        BY <1>1, <1>5, <4>3 DEF CliTypeOK
      <4> QED
        BY <4>2, <4>4
    <3> QED
      BY <3>2, <3>3
  <2>5. JobSeen(p)'
    BY <1>1, <2>2 DEF Saving, JobSeen
  <2> QED
    BY <1>1, <2>2, <2>4, <2>5 DEF Saving
<1>6. CASE Exits(p, 1)
  <2>1. "none" \in CliSights /\ "exit" \in CliPlaces
    BY DEF CliSights, CliJobStates, CliPlaces
  <2>2. WentOn(p, {"exit"}) /\ cli'[p].posts = cli[p].posts /\ cli'[p].seen = cli[p].seen /\ cli'[p].code = 1
    BY <1>1, <1>6, <2>1, GoesMoves
  <2>3. cli'[p].cmd = cli[p].cmd /\ cli'[p].pc = "exit"
    BY <2>2 DEF WentOn
  <2> QED
    BY <1>1, <2>2, <2>3, SavingOn
<1> QED
  BY <1>1, <1>5, <1>6, SaveOutputSave

LEMMA JobSaving ==
  ASSUME SaveInv, CliNext, NEW p \in CliProc, CliJobMoves(p) \/ \E s \in {"completed", "failed"} : CliJobEnds(p, s)
  PROVE  \A q \in CliProc : Saving(q)'
<1> SUFFICES ASSUME NEW q \in CliProc PROVE Saving(q)'
  OBVIOUS
<1>1. TInv /\ Saving(q) /\ cli' = cli /\ cliSave' = cliSave /\ cliDir' = cliDir /\ cliJob \in [CliProc -> CliJobStates]
  BY DEF SaveInv, ConfInv, TInv, CliTypeOK, CliJobMoves, CliJobEnds
<1>2. cliJob'[q] = cliJob[q] \/ cliJob[q] \in {"queued", "processing"}
  BY <1>1 DEF CliJobMoves, CliJobEnds
<1>3. JobSeen(q)'
  BY <1>1, <1>2 DEF Saving, JobSeen
<1> QED
  BY <1>1, <1>3 DEF Saving, SavedFrom

(* A step of p gives no other process anything.                              *)
LEMMA OthersSaving ==
  ASSUME SaveInv, NEW p \in CliProc, CliStep(p) \/ Interrupt(p), NEW q \in CliProc, q # p
  PROVE  cli'[q] = cli[q] /\ cliSave'[q] = cliSave[q] /\ cliJob'[q] = cliJob[q]
<1>1. TInv /\ CliTypeOK /\ cliJob \in [CliProc -> CliJobStates]
  BY DEF SaveInv, ConfInv, TInv, CliTypeOK
<1>2. cli'[q] = cli[q]
  <2>1. CASE Plain(p)
    BY <1>1, <2>1, PlainMoves DEF WentOn
  <2>2. CASE Works(p)
    BY <1>1, <2>2, WorksMoves DEF WentOn
  <2>3. CASE CliStart(p)
    BY <1>1, <2>3, StartMoves DEF WentOn
  <2> QED
    BY <2>1, <2>2, <2>3 DEF CliStep, Plain, Works
<1>3. cliJob'[q] = cliJob[q]
  <2>1. cliJob' = cliJob \/ cliJob' = [cliJob EXCEPT ![p] = "queued"]
    BY LoginMoves
       DEF CliStep, CliStart, StartUploads, Post, FileUploaded, PollTransient, PollRefused, PollAnswer, LookOnce, Sleep, Finish, PickName, SaveOutput, Interrupt
  <2> QED
    BY <1>1, <2>1
<1>4. cliSave'[q] = cliSave[q]
  <2>1. CASE Finish(p)
    BY <1>1, <2>1, FinishSave DEF SaveOnly
  <2>2. CASE PickName(p)
    BY <1>1, <2>2, PickNameSave DEF SaveOnly
  <2>3. CASE SaveOutput(p)
    <3>1. Fetching(p)
      BY <1>1 DEF TInv
    <3> QED
      BY <1>1, <2>3, <3>1, SaveOutputSave DEF SaveOnly
  <2>4. CASE ~(Finish(p) \/ PickName(p) \/ SaveOutput(p))
    BY <2>4, LoginMoves
       DEF CliStep, CliStart, StartUploads, Post, FileUploaded, PollTransient, PollRefused, PollAnswer, LookOnce, Sleep, Interrupt
  <2> QED
    BY <2>1, <2>2, <2>3, <2>4
<1> QED
  BY <1>2, <1>3, <1>4

LEMMA SaveStep == SaveInv /\ [CliNext]_cliVars => SaveInv'
<1> SUFFICES ASSUME SaveInv, [CliNext]_cliVars, NEW q \in CliProc PROVE Saving(q)'
  BY ConfStep, SpendStep DEF SaveInv
<1>1. CASE UNCHANGED cliVars
  BY <1>1 DEF cliVars, SaveInv, Saving, SavedFrom, JobSeen
<1>2. ASSUME CliNext, NEW p \in CliProc, CliStep(p) \/ Interrupt(p) PROVE Saving(q)'
  <2>1. CASE q # p
    BY <1>2, <2>1, OthersSaving, SavingKept
  <2>2. CASE q = p
    <3>1. CASE CliStart(p)
      BY <2>2, <3>1, StartSaving
    <3>2. CASE LoginStep(p)
      BY <2>2, <3>2, LoginSaving
    <3>3. CASE StartUploads(p) \/ \E i \in cliSent[p].flying : FileUploaded(p, i)
      BY <1>2, <2>2, <3>3, UploadSaving
    <3>4. CASE Post(p)
      BY <2>2, <3>4, PostSaving
    <3>5. CASE PollTransient(p) \/ PollRefused(p) \/ PollAnswer(p) \/ LookOnce(p) \/ Sleep(p) \/ Interrupt(p)
      BY <2>2, <3>5, WaitSaving
    <3>6. CASE Finish(p) \/ PickName(p) \/ SaveOutput(p)
      BY <1>2, <2>2, <3>6, FinishSaving, PickSaving, OutputSaving
    <3> QED
      BY <1>2, <3>1, <3>2, <3>3, <3>4, <3>5, <3>6 DEF CliStep
  <2> QED
    BY <2>1, <2>2
<1>3. ASSUME CliNext, NEW p \in CliProc, CliJobMoves(p) \/ \E s \in {"completed", "failed"} : CliJobEnds(p, s)
      PROVE  Saving(q)'
  BY <1>3, JobSaving
<1> QED
  BY <1>1, <1>2, <1>3 DEF CliNext

LEMMA SaveAlways == CliSpec => []SaveInv
BY SaveInit, SaveStep, PTL DEF CliSpec

LEMMA ZeroKept ==
    SaveInv => ZeroMeansSaved
<1> SUFFICES ASSUME SaveInv, NEW p \in CliProc, cli[p].pc = "exit", cli[p].code = 0, cli[p].cmd.mode = "save",
                    ~cli[p].cmd.dry
             PROVE  /\ cliJob[p] \in {"none", "completed"}
                    /\ \A i \in 1 .. CliOutputs : \E n \in 0 .. CliNames : cliDir[n] = <<p, i>>
  BY DEF ZeroMeansSaved
<1>1. Worked(cli[p].seen) /\ SavedFrom(p, 0) /\ JobSeen(p)
  BY DEF SaveInv, Saving
<1>2. cliJob[p] \in {"none", "completed"}
  BY <1>1 DEF Worked, JobSeen
<1>3. 0 + 1 .. CliOutputs = 1 .. CliOutputs
  OBVIOUS
<1> QED
  BY <1>1, <1>2, <1>3 DEF SavedFrom

(* Exit code 0 of a command that saves means that the work completed and     *)
(* every output is on disk, whatever other processes save beside it.         *)
THEOREM ZeroIsSaved == CliSpec => []ZeroMeansSaved
<1> QED
  BY ZeroKept, SaveAlways, PTL

=============================================================================
