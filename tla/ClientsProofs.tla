---------------------------- MODULE ClientsProofs ----------------------------
(***************************************************************************)
(* Theorems about the clients side by side, the system MCClients gives to  *)
(* TLC: whichever clients there are, and for every set of visits and       *)
(* command lines and all bounds, the invariants of the seven of them hold  *)
(* together, for none of them writes what is another's.                    *)
(***************************************************************************)
EXTENDS MCClients, CliClientProofs, PagesProofs, StudioProofs, EditingProofs

ClientsInv == SaveInv /\ HomeInv /\ ToolInv /\ ImgInv /\ StudioInv /\ GenInv /\ CapInv

LEMMA ClientsStart == Init => ClientsInv
BY SaveInit, HomeInitInv, ToolInitInv, ImgInitInv, StudioStarts, GenStart, CapStart DEF Init, ClientsInv

(* A step of the whole is, for every client, a step of its own or none.      *)
LEMMA StepsOfEach ==
    ASSUME [Next]_clientVars
    PROVE  /\ [CliNext]_cliVars /\ [HomeNext]_homeVars /\ [ToolNext]_toolVars /\ [ImgNext]_imgVars
           /\ [StudioNext]_studioVars /\ [GenNext]_genVars /\ [CapNext]_capVars
BY Zenon DEF Next, clientVars

LEMMA ClientsStep == ClientsInv /\ [Next]_clientVars => ClientsInv'
<1> SUFFICES ASSUME ClientsInv, [Next]_clientVars PROVE ClientsInv'
    OBVIOUS
<1>1. SaveInv' /\ HomeInv'
    BY StepsOfEach, SaveStep, HomeStep DEF ClientsInv
<1>2. ToolInv' /\ ImgInv'
    BY StepsOfEach, ToolStep, ImgStep DEF ClientsInv
<1>3. StudioInv' /\ GenInv' /\ CapInv'
    BY StepsOfEach, StudioSteps, GenStep, CapStep DEF ClientsInv
<1> QED BY <1>1, <1>2, <1>3 DEF ClientsInv

LEMMA ClientsAlways == Spec => []ClientsInv
BY ClientsStart, ClientsStep, PTL DEF Spec

(* Type correctness of every client, whichever of them a behaviour is of.    *)
THEOREM ClientsTypes == Spec => []ClientsTypeOK
<1>1. ClientsInv => ClientsTypeOK
    <2> SUFFICES ASSUME ClientsInv PROVE ClientsTypeOK
        OBVIOUS
    <2>1. CliTypeOK
        BY DEF ClientsInv, SaveInv, ConfInv, TInv
    <2>2. HomeTypeOK
        BY HomeTyped DEF ClientsInv
    <2>3. ToolTypeOK
        BY DEF ClientsInv, ToolInv
    <2>4. ImgTypeOK
        BY ImgTyped DEF ClientsInv
    <2>5. StudioTypeOK /\ GenTypeOK /\ CapTypeOK
        BY StudioTyped, GenTyped, CapTyped DEF ClientsInv
    <2> QED BY <2>1, <2>2, <2>3, <2>4, <2>5 DEF ClientsTypeOK
<1> QED BY <1>1, ClientsAlways, PTL

(* What the command line promises: keys are approved, settings survive, a    *)
(* command spends once, exit code 0 means saved. What the pages promise:     *)
(* pictures keep their place, runs exclude each other, estimates and         *)
(* captions are of what is shown. What the Studio promises: clips are the    *)
(* project's, what is stored is whole, what is said to be saved is.          *)
THEOREM ClientsKeepTheirWord ==
    Spec => []/\ StoredKeyIsApproved /\ SettingsSurvive /\ SpendsOnce /\ ZeroMeansSaved
              /\ FilesKeepTheirPlace /\ OneRunAtATime /\ EstimateIsCurrent /\ WordsOfVideo
              /\ ClipsOfProject /\ StoredProjectIsWhole /\ SavedMeansSaved
<1>1. ClientsInv => StoredKeyIsApproved /\ SettingsSurvive /\ SpendsOnce
    BY KeyApproved, SettingsStay, SpentOnce DEF ClientsInv, SaveInv
<1>2. ClientsInv => ZeroMeansSaved /\ FilesKeepTheirPlace
    BY ZeroKept, FilesPlaced DEF ClientsInv
<1>3. ClientsInv => OneRunAtATime /\ EstimateIsCurrent
    BY OneLives, EstimateKept DEF ClientsInv
<1>4. ClientsInv => WordsOfVideo /\ ClipsOfProject
    BY WordsHold, ClipsOwn DEF ClientsInv
<1>5. ClientsInv => StoredProjectIsWhole /\ SavedMeansSaved
    BY StoredIsWhole, SavedIsSaved DEF ClientsInv
<1> QED BY <1>1, <1>2, <1>3, <1>4, <1>5, ClientsAlways, PTL

(* And of their steps: no file is written over, an image page sends and      *)
(* shows what the user chose, one undo takes back one edit.                  *)
THEOREM ClientsStepInOrder == Spec => NothingClobbered /\ ImagesFaithful /\ UndoTakesBackOneEdit
<1>1. ClientsInv /\ [Next]_clientVars
        => [\A n \in 0 .. CliNames : cliDir[n] # Absent => cliDir'[n] = cliDir[n]]_cliVars
    BY StepsOfEach, ClobberStep DEF ClientsInv, SaveInv, ConfInv
<1>2. ClientsInv /\ [Next]_clientVars => [ResultOfPicture' /\ SentIsShown /\ BrushedRegionEdited]_imgVars
    <2> SUFFICES ASSUME ClientsInv, [Next]_clientVars
                 PROVE  ResultOfPicture' /\ SentIsShown /\ BrushedRegionEdited
        OBVIOUS
    <2>1. ImgInv' /\ SentIsShown /\ BrushedRegionEdited
        BY StepsOfEach, ImgStep DEF ClientsInv
    <2> QED BY <2>1 DEF ImgInv, PageKept
<1>3. ClientsInv /\ [Next]_clientVars
        => [Undo => ed.stale \/ Content(ed'.clips) = Last(ed.before)]_studioVars
    BY UndoneIsOne DEF ClientsInv
<1> QED BY <1>1, <1>2, <1>3, ClientsAlways, PTL DEF Spec, NothingClobbered, ImagesFaithful, UndoTakesBackOneEdit
===============================================================================
