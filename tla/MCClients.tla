----------------------------- MODULE MCClients -----------------------------
(* The clients for TLC. They share nothing but the service, so a behaviour   *)
(* is of one of them, chosen at the start; the others rest in one of their   *)
(* initial states.                                                           *)
EXTENDS CliClient, HomePage, ToolPages, ImageTools, StudioEditor, StudioGenerations, CaptionEditor

CONSTANTS
    Clients,   \* the clients a run is about
    p1, p2

VARIABLE client

clientVars == <<client, cliVars, homeVars, toolVars, imgVars, studioVars, genVars, capVars>>

(* ------------------------------------------------------------ command lines *)

Command == [op |-> "login", groups |-> <<>>, mode |-> "detach", dry |-> FALSE, job |-> "none",
            paste |-> FALSE]
Pasting == [Command EXCEPT !.paste = TRUE]
Logout == [Command EXCEPT !.op = "logout"]
Generate == [Command EXCEPT !.op = "generate", !.groups = << <<"a", "b">>, <<"a", "c">> >>, !.mode = "save"]
DryRun == [Generate EXCEPT !.dry = TRUE]
Detached == [Command EXCEPT !.op = "generate"]
RenderTimeline == [Command EXCEPT !.op = "render", !.groups = << <<"a">>, <<"a">> >>, !.mode = "wait"]
Look == [Command EXCEPT !.op = "job", !.job = "processing"]
Done == [Look EXCEPT !.job = "completed", !.mode = "save"]
Pair(a, b) == (p1 :> a) @@ (p2 :> b)

\* One key of p2 is longer than that of p1 by the newline, one by more.
Key(p, valid, bytes) == [for |-> p, valid |-> valid, bytes |-> bytes]
MCCliKeys == {Key("earlier", TRUE, 20), Key(p1, TRUE, 20), Key(p1, FALSE, 20),
              Key(p2, TRUE, 21), Key(p2, TRUE, 23)}

MCCliSessions == {Pair(Pasting, Command), Pair(Command, Logout), Pair(Logout, Logout), Pair(Generate, DryRun),
                  Pair(Done, Done), Pair(RenderTimeline, DryRun), Pair(Detached, Look), Pair(DryRun, Look)}

(* -------------------------------------------------------------- home page -- *)

Visitor == [signed |-> FALSE, moves |-> {"sign"}, left |-> 3, batches |-> {}, modes |-> {}]
Customer == [Visitor EXCEPT !.signed = TRUE]

MCHomeVisits ==
    {[Customer EXCEPT !.moves = {"add", "remove", "order", "similar"}, !.left = 4, !.batches = {<<1, 2>>, <<3>>}],
     [Customer EXCEPT !.moves = {"add", "remove", "gallery"}, !.batches = {<<1>>, <<2>>}],
     [Customer EXCEPT !.moves = {"add", "remove"}, !.batches = {<<1, 8>>, <<9>>}],
     [Visitor EXCEPT !.moves = {"add", "sign", "close"}, !.left = 5, !.batches = {<<1>>, <<2>>}],
     [Visitor EXCEPT !.moves = {"sign", "buy", "close"}, !.left = 4],
     [Customer EXCEPT !.moves = {"generate"}, !.left = 2, !.modes = {"images", "loop"}],
     [Customer EXCEPT !.moves = {"generate", "gallery"}, !.left = 2, !.modes = {"music"}],
     [Visitor EXCEPT !.moves = {"generate", "gallery", "sign"}, !.modes = {"video"}]}

(* ------------------------------------------------------------------ pages -- *)

Visit(p, edits, runs) == [page |-> p, edits |-> edits, runs |-> runs]

MCToolVisits ==
    {Visit(p, 0, 2) : p \in {"lofi", "trailer", "anima", "generator", "poses"}} \cup
    {Visit(p, 1, 2) : p \in {"background", "keyframes", "orbit", "production", "control", "remake"}} \cup
    {Visit(p, 2, 1) : p \in {"background", "anime", "animator", "transfer", "keyframes"}} \cup
    {Visit(p, 1, 1) : p \in {"h3image", "music", "recast", "reference", "swap", "dramatizer"}} \cup
    {Visit(p, 2, 0) : p \in {"swap", "recast", "reference"}} \cup {Visit("remake", 3, 0)}

MCImgVisits ==
    {Visit(p, 2, 2) : p \in {"upscale", "outpaint", "relight", "style", "nano", "utility"}} \cup
    {Visit(p, 0, 2) : p \in {"flux", "gpt", "grok", "cameras"}} \cup
    {Visit("inpaint", 4, 2), Visit("bulk", 0, 3), Visit("board", 4, 2)}

(* ----------------------------------------------------------------- studio -- *)

Guest == [signed |-> FALSE, requested |-> 1, known |-> {1}, moves |-> {}, ops |-> {},
          left |-> 2, faults |-> 0, saves |-> 1, stamp |-> 0]
User == [Guest EXCEPT !.signed = TRUE]

MCStudioVisits ==
    {[Guest EXCEPT !.moves = {"edit", "remove", "undo"}, !.left = 4],
     [Guest EXCEPT !.moves = {"drag", "undo"}, !.left = 4],
     [Guest EXCEPT !.moves = {"drag", "edit", "undo"}, !.left = 3],
     [Guest EXCEPT !.moves = {"paste", "copy", "new", "undo"}, !.left = 4],
     [User EXCEPT !.moves = {"grade", "open", "undo"}, !.left = 3],
     [Guest EXCEPT !.moves = {"grade", "remove", "reload", "undo"}, !.left = 3],
     [Guest EXCEPT !.moves = {"edit", "undo"}, !.ops = {"retime"}, !.left = 3],
     [Guest EXCEPT !.moves = {"edit", "undo"}, !.ops = {"separate"}, !.left = 3],
     [Guest EXCEPT !.moves = {"undo"}, !.ops = {"images", "text", "motion", "restyle", "videoBackground",
                                                "extend", "upscale", "catalog", "audio"}],
     [Guest EXCEPT !.moves = {"edit", "reload"}, !.ops = {"importFiles"}, !.faults = 1],
     [User EXCEPT !.moves = {"open", "edit"}, !.known = {1, 2}, !.faults = 1],
     [User EXCEPT !.moves = {"open", "paste"}, !.known = {1, 2}, !.left = 3],
     [User EXCEPT !.moves = {"open", "new"}, !.known = {2}, !.requested = 0, !.faults = 1],
     [Guest EXCEPT !.moves = {"reload"}, !.ops = {"remote"}],
     [User EXCEPT !.moves = {"edit", "undo"}, !.left = 3, !.faults = 1, !.saves = 2],
     [User EXCEPT !.moves = {"open"}, !.ops = {"restyle"}, !.known = {1, 2}],
     [User EXCEPT !.moves = {"undo"}, !.ops = {"background"}],
     [User EXCEPT !.ops = {"importFiles"}],
     [User EXCEPT !.ops = {"importFiles"}, !.left = 1, !.faults = 1],
     [User EXCEPT !.moves = {"undo"}, !.ops = {"retime"}, !.faults = 1, !.requested = 0],
     [User EXCEPT !.moves = {"undo"}, !.ops = {"remote"}, !.left = 1],
     [User EXCEPT !.moves = {"new", "reload"}, !.requested = 0, !.known = {}, !.ops = {"importFiles"}],
     [User EXCEPT !.moves = {"grade", "undo"}, !.requested = 2, !.known = {2}, !.faults = 1],
     [User EXCEPT !.moves = {"edit"}, !.requested = 0, !.known = {2}, !.left = 1, !.faults = 1],
     [Guest EXCEPT !.left = 0]}

Queue(batches, clicks, elsewhere, faults) ==
    [batches |-> batches, clicks |-> clicks, elsewhere |-> elsewhere, faults |-> faults]

MCGenVisits ==
    {Queue({1}, 1, {}, 1), Queue({1}, 2, {}, 0), Queue({1}, 1, {"retry"}, 0),
     Queue({1}, 1, {"cancel"}, 0), Queue({2}, 0, {}, 1), Queue({2}, 0, {"cancel", "delete"}, 0)}

(* --------------------------------------------------------------- captions -- *)

Words(ends) == [i \in DOMAIN ends |-> Word(1, ends[i][1], ends[i][2])]
Spoken == Words(<< <<0, 4>>, <<4, 7>>, <<9, 14>> >>)
Sung == Words(<< <<2, 3>>, <<3, 12>>, <<30, 34>> >>)
Overlaid == Words(<< <<6, 9>>, <<2, 5>> >>)
Captions(edits, ops) == [edits |-> edits, ops |-> ops \union {"transcribe"}, files |-> {1}, heard |-> {Spoken}, imports |-> {Overlaid}]

MCCapVisits ==
    {[Captions(6, {"undo"}) EXCEPT !.files = 1 .. CapFiles, !.heard = {Words(<< <<0, 4>> >>)}],
     [Captions(4, {"drag"}) EXCEPT !.files = 1 .. CapFiles, !.heard = {Words(<< <<0, 4>> >>)}],
     [Captions(3, {"drag"}) EXCEPT !.heard = {Sung}],
     Captions(4, {"join", "undo"}),
     Captions(4, {"add"}),
     [Captions(3, {"type", "drag"}) EXCEPT !.heard = {Words(<< <<0, 4>>, <<4, 7>> >>)}],
     Captions(4, {"text"}),
     [Captions(3, {"import", "export"}) EXCEPT !.files = 1 .. CapFiles]}

(* ------------------------------------------------------------------- spec -- *)

Chosen(name, rests) == client # name => rests

Init ==
    /\ client \in Clients
    /\ CliInit
    /\ \A p \in {p1, p2} : IF cli[p].cmd.op \in {"login", "logout"} THEN cliDir[0] = Absent
                           ELSE cliFile.base
    /\ Chosen("cli", /\ \A p \in {p1, p2} : cli[p].cmd = DryRun \/ cli[p].cmd = Look
                     /\ cliFile.key = NoKey /\ cliDir[0] = Absent)
    /\ HomeInit
    /\ Chosen("home", home.visit = [Visitor EXCEPT !.moves = {"sign", "buy", "close"}, !.left = 4])
    /\ ToolInit
    /\ Chosen("tool", tool.visit = Visit("lofi", 0, 2))
    /\ ImgInit
    /\ Chosen("img", img.visit = Visit("flux", 0, 2))
    /\ StudioInit
    /\ Chosen("studio", visit.left = 0)
    /\ GenInit
    /\ Chosen("gens", genLeft = Queue({1}, 1, {}, 1))
    /\ CapInit
    /\ Chosen("caps", cap.visit.ops = {"add", "transcribe"})

Next ==
    \/ client = "cli" /\ CliNext /\ UNCHANGED <<client, homeVars, toolVars, imgVars, studioVars, genVars, capVars>>
    \/ client = "home" /\ HomeNext /\ UNCHANGED <<client, cliVars, toolVars, imgVars, studioVars, genVars, capVars>>
    \/ client = "tool" /\ ToolNext /\ UNCHANGED <<client, cliVars, homeVars, imgVars, studioVars, genVars, capVars>>
    \/ client = "img" /\ ImgNext /\ UNCHANGED <<client, cliVars, homeVars, toolVars, studioVars, genVars, capVars>>
    \/ client = "studio" /\ StudioNext /\ UNCHANGED <<client, cliVars, homeVars, toolVars, imgVars, genVars, capVars>>
    \/ client = "gens" /\ GenNext /\ UNCHANGED <<client, cliVars, homeVars, toolVars, imgVars, studioVars, capVars>>
    \/ client = "caps" /\ CapNext /\ UNCHANGED <<client, cliVars, homeVars, toolVars, imgVars, studioVars, genVars>>

(* The fairness of each client's own specification, for the one that runs.   *)
Fairness ==
    /\ \A p \in CliProc : WF_cliVars(client = "cli" /\ CliStep(p))
    /\ WF_homeVars(client = "home" /\ HomeHandlers)
    /\ WF_toolVars(client = "tool" /\ TimerFires) /\ WF_toolVars(client = "tool" /\ ToolCallEnds)
    /\ \A i \in 1 .. ToolRuns : WF_toolVars(client = "tool" /\ i \in DOMAIN toolRuns /\ RunStep(i))
    /\ WF_imgVars(client = "img" /\ ImgHandler)
    /\ WF_studioVars(client = "studio" /\ Background)
    /\ WF_genVars(client = "gens" /\ GenHandlers) /\ WF_genVars(client = "gens" /\ GenPass)
    /\ WF_capVars(client = "caps" /\ CapAnswers) /\ WF_capVars(client = "caps" /\ WordsSaved)

Spec == Init /\ [][Next]_clientVars /\ Fairness
(* ------------------------------------------------------------- properties -- *)

(* Type correctness of every client.                                         *)
ClientsTypeOK == CliTypeOK /\ HomeTypeOK /\ ToolTypeOK /\ ImgTypeOK /\ StudioTypeOK /\ GenTypeOK /\ CapTypeOK

(* Nothing a user started hangs: a process exits, a run of a page and a      *)
(* generation or sign-in of the home page end, the remake page offers Run    *)
(* again after an estimate, an image page is not busy for ever, whatever the *)
(* service answers and in whatever order.                                    *)
ClientsEnd == CliEnds /\ HomeEnds /\ RunsEnd /\ EstimatingEnds /\ ImgBusyEnds
=============================================================================
