---------------------------- MODULE Configuration ----------------------------
(***************************************************************************)
(* The configuration file of voxl-tflite-server and the three programs that  *)
(* write it: the wizard voxl-configure-tflite, the server it starts with -c, *)
(* and the server systemd starts.  A key is set with sed, which keeps its    *)
(* place in the file and always writes a comma behind it; a reader adds the  *)
(* keys it misses at the end and writes the file back.  From the model and   *)
(* the labels it read the server builds its model helper, or fails and is    *)
(* started again.  Paths are names; only the keys the wizard writes, and the *)
(* key that comes last in a factory file, are kept.                          *)
(***************************************************************************)
EXTENDS Naturals, Sequences, SequencesExt

CONSTANTS
    InitialFiles,   \* configuration files that may be found on the vehicle
    InstalledSets,  \* files under /usr/bin/dnn, one of these sets
    Pipes,          \* camera pipes voxl-list-pipes may report
    TypedModels,    \* names that may be typed for the custom model
    MaxRuns,        \* bound: how often the wizard is run
    MaxCrashes,     \* bound: how often a serving server dies
    BurstLimit      \* starts systemd tries again before it gives up

VARIABLES
    file,           \* the configuration file
    installed,      \* what is under /usr/bin/dnn
    shell,          \* the server run with -c: what it read and has to write
    wizard,         \* where the wizard is, with the keys it has still to set
    server,         \* the server under systemd: where it is, what it read
    runs, crashes,
    origin,         \* history: the file the present one grew from
    lost,           \* history: a write-back replaced a file changed since the read
    choice          \* history: "none" since the file of origin, or whether the last
                    \* choice of a model is "whole" or "torn", cut off between its keys

confVars == <<file, installed, shell, wizard, server, runs, crashes, origin, lost, choice>>
-----------------------------------------------------------------------------
(***************************************************************************)
(* config_file_read.                                                         *)
(***************************************************************************)
Entry(key, value) == [key |-> key, value |-> value]
Missing == [entries |-> <<>>, dangling |-> FALSE]

KeysOf(entries) == { entries[i].key : i \in DOMAIN entries }
ValueOf(entries, key) == entries[CHOOSE i \in DOMAIN entries : entries[i].key = key].value

\* (Variant: the keys of the qrb5165 build are read before the labels.)
FactoryLabelsLast ==
    << Entry("model", "mobilenet"), Entry("input_pipe", "hires"),
       Entry("output_pipe_prefix", "mobilenet"),
       Entry("requires_labels", "true"), Entry("labels", "coco_labels") >>

\* The keys in the order config_file_read fetches them, with their defaults.
Factory ==
    << Entry("model", "mobilenet"), Entry("input_pipe", "hires"),
       Entry("requires_labels", "true"), Entry("labels", "coco_labels"),
       Entry("output_pipe_prefix", "mobilenet") >>

\* Labels are fetched only if the file, or the default, requires them.
RequiresLabels(entries) ==
    "requires_labels" \in KeysOf(entries) => ValueOf(entries, "requires_labels") = "true"

\* json_fetch_..._with_default: a key that is missing goes to the end of the file
\* with its default.
Fetched(entries, e) ==
    IF e.key \in KeysOf(entries) \/ (e.key = "labels" /\ ~RequiresLabels(entries))
    THEN <<>> ELSE <<e>>
WithDefaults(entries) ==
    entries \o Fetched(entries, Factory[1]) \o Fetched(entries, Factory[2])
            \o Fetched(entries, Factory[3]) \o Fetched(entries, Factory[4])
            \o Fetched(entries, Factory[5])

\* (Variant: the file is written back whether it was modified or not.)
ModifiedAlways(entries) == TRUE
Modified(entries) == WithDefaults(entries) # entries

\* labels_in_use, "" when no labels are required.
LabelsInUse(entries) == IF RequiresLabels(entries) THEN ValueOf(entries, "labels") ELSE ""

\* set_param_string and set_param_bool: sed changes the line of the key, if there
\* is one, to one that ends in a comma.
SetParam(f, key, value) ==
    [entries |-> [i \in DOMAIN f.entries |->
                    IF f.entries[i].key = key THEN Entry(key, value) ELSE f.entries[i]],
     dangling |-> \/ f.dangling
                  \/ f.entries # <<>> /\ Last(f.entries).key = key]
-----------------------------------------------------------------------------
(***************************************************************************)
(* initialize_model_settings and create_model_helper.                        *)
(***************************************************************************)

\* (Variant: the segmentation model is taken for an object detector.)
SettingsDeeplabDetects(m) ==
    CASE m = "mobilenet"    -> <<"MOBILE_NET", "OBJECT_DETECTION">>
      [] m = "classifier"   -> <<"MOBILE_NET", "CLASSIFICATION">>
      [] m = "deeplab"      -> <<"DEEPLAB", "OBJECT_DETECTION">>
      [] OTHER              -> <<"PLACEHOLDER", "OBJECT_DETECTION">>

Settings(m) ==
    CASE m \in {"mobilenet", "mobilenet_nnapi"} -> <<"MOBILE_NET", "OBJECT_DETECTION">>
      [] m = "classifier"   -> <<"MOBILE_NET", "CLASSIFICATION">>
      [] m = "fastdepth"    -> <<"FAST_DEPTH", "MONO_DEPTH">>
      [] m = "deeplab"      -> <<"DEEPLAB", "SEGMENTATION">>
      [] m = "efficientnet" -> <<"EFFICIENT_NET", "CLASSIFICATION">>
      [] m = "movenet"      -> <<"POSENET", "POSE">>
      [] m = "yolov5"       -> <<"YOLOV5", "OBJECT_DETECTION">>
      [] m = "yolov8"       -> <<"YOLOV8", "OBJECT_DETECTION">>
      [] m = "yolov11"      -> <<"YOLOV11", "OBJECT_DETECTION">>
      [] m = "gate_xyz"     -> <<"GATE_XYZ", "OBJECT_DETECTION">>
      [] m = "gate_yaw"     -> <<"GATE_YAW", "OBJECT_DETECTION">>
      [] m = "gate_bin"     -> <<"GATE_BIN", "OBJECT_DETECTION">>
      [] OTHER              -> <<"PLACEHOLDER", "OBJECT_DETECTION">>

\* The switch of create_model_helper, case by case: the categories it accepts
\* ("any" where it does not look), what it builds, and whether it ends in a break.
Case(name, builds, break) == [name |-> name, builds |-> builds, break |-> break]
Switch ==
    << Case("POSENET", <<"POSE", "PoseNet">>, TRUE),
       Case("YOLOV5", <<"OBJECT_DETECTION", "YoloV5">>, TRUE),
       Case("YOLOV8", <<"OBJECT_DETECTION", "YoloV8">>, TRUE),
       Case("MOBILE_NET", <<"OBJECT_DETECTION", "GenericObjectDetection",
                            "CLASSIFICATION", "GenericClassification">>, TRUE),
       Case("FAST_DEPTH", <<"MONO_DEPTH", "FastDepth">>, TRUE),
       Case("DEEPLAB", <<"SEGMENTATION", "DeepLab">>, FALSE),
       Case("EFFICIENT_NET", <<"CLASSIFICATION", "GenericClassification">>, FALSE),
       Case("YOLOV11", <<"OBJECT_DETECTION", "YoloV8">>, FALSE),
       Case("GATE_XYZ", <<"any", "GateXyz">>, FALSE),
       Case("GATE_YAW", <<"any", "GateYaw">>, FALSE),
       Case("GATE_BIN", <<"any", "GateBin">>, FALSE),
       Case("PLACEHOLDER", <<"OBJECT_DETECTION", "GenericObjectDetection">>, FALSE) >>

\* The helper a case builds for a category, {} when it does not support it.
Builds(i, category) ==
    { Switch[i].builds[k + 1] :
        k \in { k \in DOMAIN Switch[i].builds : Switch[i].builds[k] \in {category, "any"} } }

\* From its case the switch falls through until one returns or breaks.
CreateModelHelper(name, category) ==
    LET at == CHOOSE i \in DOMAIN Switch : Switch[i].name = name
        returns == { i \in at .. Len(Switch) :
            /\ Builds(i, category) # {}
            /\ \A j \in at .. i - 1 : Builds(j, category) = {} /\ ~Switch[j].break }
    IN  IF returns = {} THEN "nullptr"
        ELSE CHOOSE h \in Builds(CHOOSE i \in returns : TRUE, category) : TRUE

\* (Variant: every constructor reads the labels.)
ReadsLabelsAlways(helper) == TRUE

\* The helpers whose constructor exits when it cannot read the labels.
ReadsLabels(helper) ==
    helper \in {"YoloV5", "YoloV8", "GenericObjectDetection", "GenericClassification", "DeepLab"}

\* The model files main knows by name, and one of any other name.
Models == {"mobilenet", "mobilenet_nnapi", "classifier", "fastdepth", "deeplab", "efficientnet",
           "movenet", "yolov5", "yolov8", "yolov11", "gate_xyz", "gate_yaw", "gate_bin", "custom"}
HelperFor == [m \in Models |-> CreateModelHelper(Settings(m)[1], Settings(m)[2])]

\* The lines of a file that can be read: a key occurs once.
Values ==
    Models \cup Pipes
    \cup {"hires", "coco_labels", "cityscapes_labels", "imagenet_labels", "yolov5_labels"}
    \cup {"true", "false"}
    \cup UNION { { f.entries[i].value : i \in DOMAIN f.entries } : f \in InitialFiles }
Line == [key : KeysOf(Factory), value : Values]
IsEntries(entries) ==
    /\ entries \in Seq(Line)
    /\ \A i, j \in DOMAIN entries : entries[i].key = entries[j].key => i = j
    /\ \A i \in DOMAIN entries : entries[i].key = "model" => entries[i].value \in Models

ASSUME ConfigurationAssumption ==
    /\ InitialFiles \subseteq [entries : Seq(Line), dangling : BOOLEAN]
    /\ \A f \in InitialFiles : IsEntries(f.entries)
    /\ TypedModels \subseteq Models
    /\ {MaxRuns, MaxCrashes, BurstLimit} \subseteq Nat

\* The constructor of the helper finds its files; without a helper main crashes.
Starts(m, labels) ==
    /\ HelperFor[m] # "nullptr"
    /\ m \in installed
    /\ ReadsLabels(HelperFor[m]) => labels \in installed
-----------------------------------------------------------------------------
ConfInit ==
    /\ file \in InitialFiles
    /\ installed \in InstalledSets
    /\ shell = [pc |-> "none", read |-> <<>>]
    /\ wizard = [pc |-> "idle", todo |-> <<>>, next |-> "idle"]
    /\ server = [pc |-> "stopped", read |-> <<>>, tries |-> 0]
    /\ runs = 0 /\ crashes = 0
    /\ origin = file /\ lost = FALSE /\ choice = "none"

\* Where the wizard goes next.
Goto(pc) == wizard' = [wizard EXCEPT !.pc = pc]

(***************************************************************************)
(* The server.                                                               *)
(***************************************************************************)

\* main or a constructor returned -1, or the process died: Restart=on-failure.
Failed(s) ==
    IF s.tries < BurstLimit THEN [pc |-> "starting", read |-> <<>>, tries |-> s.tries + 1]
    ELSE [s EXCEPT !.pc = "gave_up"]

ReadConfig ==
    /\ server.pc = "starting"
    /\ server' = IF file.dangling THEN Failed(server)
                 ELSE [server EXCEPT !.read = file.entries,
                         !.pc = IF Modified(file.entries) THEN "write" ELSE "build"]
    /\ UNCHANGED <<file, installed, shell, wizard, runs, crashes, origin, lost, choice>>

\* The file is written from what was read before.
WriteBack(read) ==
    /\ file' = [entries |-> WithDefaults(read), dangling |-> FALSE]
    /\ lost' = (lost \/ file # [entries |-> read, dangling |-> FALSE])

ServerWrites ==
    /\ server.pc = "write"
    /\ WriteBack(server.read)
    /\ server' = [server EXCEPT !.pc = "build", !.read = WithDefaults(@)]
    /\ UNCHANGED <<installed, shell, wizard, runs, crashes, origin, choice>>

BuildHelper ==
    /\ server.pc = "build"
    /\ server' = IF Starts(ValueOf(server.read, "model"), LabelsInUse(server.read))
                 THEN [server EXCEPT !.pc = "serving"]
                 ELSE Failed(server)
    /\ UNCHANGED <<file, installed, shell, wizard, runs, crashes, origin, lost, choice>>

ServerDies ==
    /\ server.pc = "serving"
    /\ crashes < MaxCrashes
    /\ crashes' = crashes + 1
    /\ server' = Failed(server)
    /\ UNCHANGED <<file, installed, shell, wizard, runs, origin, lost, choice>>

ServerStep == ReadConfig \/ ServerWrites \/ BuildHelper
-----------------------------------------------------------------------------
(***************************************************************************)
(* The wizard.                                                               *)
(***************************************************************************)

\* (Variant: the labels of YOLOv11 are forgotten.)
OptionsYolo11Bare ==
    LET Labelled(m, l) == << Entry("model", m), Entry("requires_labels", "true"), Entry("labels", l) >>
        Plain(m)       == << Entry("model", m), Entry("requires_labels", "false") >>
    IN  { Labelled("mobilenet", "coco_labels"), Plain("fastdepth"), Plain("movenet"),
          << Entry("model", "yolov8"), Entry("labels", "yolov5_labels") >>,
          << Entry("model", "yolov11") >> }

\* The keys each choice of the menu sets, in order.  The name of the custom model
\* is typed, and may be one main knows; "exit" stands for the call of set_param_bool
\* with one argument that follows it and ends the script.
Options ==
    LET Labelled(m, l) == << Entry("model", m), Entry("requires_labels", "true"), Entry("labels", l) >>
        Plain(m)       == << Entry("model", m), Entry("requires_labels", "false") >>
        Unflagged(m)   == << Entry("model", m), Entry("labels", "yolov5_labels") >>
    IN  { Labelled("mobilenet", "coco_labels"), Plain("fastdepth"),
          Labelled("deeplab", "cityscapes_labels"), Labelled("efficientnet", "imagenet_labels"),
          Plain("movenet"), Labelled("yolov5", "yolov5_labels"),
          Unflagged("yolov8"), Unflagged("yolov11") }
        \cup { << Entry("model", m), Entry("exit", "1") >> : m \in TypedModels }

\* The arguments, and the two prompts before the menu: whether the file is wiped,
\* where the script goes on after the server has run with -c, or without it.
Begin ==
    /\ wizard.pc = "idle"
    /\ runs < MaxRuns
    /\ runs' = runs + 1
    /\ wizard' \in { [pc |-> "update", todo |-> <<>>, next |-> "enable?"],
                     [pc |-> "wipe", todo |-> <<>>, next |-> "enable?"],
                     [pc |-> "wipe", todo |-> <<>>, next |-> "restart"],
                     [pc |-> "wipe", todo |-> <<>>, next |-> "stop"],
                     [pc |-> "restart", todo |-> <<>>, next |-> "idle"],
                     [pc |-> "stop", todo |-> <<>>, next |-> "idle"] }
    /\ UNCHANGED <<file, installed, shell, server, crashes, origin, lost, choice>>

WipeFile ==
    /\ wizard.pc = "wipe"
    /\ file' = Missing
    /\ origin' = Missing /\ choice' = "none"
    /\ Goto("update")
    /\ UNCHANGED <<installed, shell, server, runs, crashes, lost>>

\* voxl-tflite-server -c: whatever config_file_read returns it exits with 0.
ShellReads ==
    /\ wizard.pc = "update"
    /\ shell.pc = "none"
    /\ IF ~file.dangling /\ Modified(file.entries)
       THEN shell' = [pc |-> "write", read |-> file.entries] /\ UNCHANGED wizard
       ELSE Goto(wizard.next) /\ UNCHANGED shell
    /\ UNCHANGED <<file, installed, server, runs, crashes, origin, lost, choice>>

ShellWrites ==
    /\ shell.pc = "write"
    /\ WriteBack(shell.read)
    /\ shell' = [pc |-> "none", read |-> <<>>]
    /\ Goto(wizard.next)
    /\ UNCHANGED <<installed, server, runs, crashes, origin, choice>>

EnablePrompt ==
    /\ wizard.pc = "enable?"
    /\ \E answer \in {"model?", "stop"} : Goto(answer)
    /\ UNCHANGED <<file, installed, shell, server, runs, crashes, origin, lost, choice>>

ChooseModel ==
    /\ wizard.pc = "model?"
    /\ \/ \E o \in Options : wizard' = [wizard EXCEPT !.pc = "set", !.todo = o]
       \/ Goto("idle")
    /\ UNCHANGED <<file, installed, shell, server, runs, crashes, origin, lost, choice>>

SetNextParam ==
    /\ wizard.pc = "set"
    /\ LET e == Head(wizard.todo) IN
         /\ file' = IF e.key = "exit" THEN file ELSE SetParam(file, e.key, e.value)
         /\ wizard' = [wizard EXCEPT !.todo = Tail(@),
                         !.pc = IF e.key = "exit" THEN "idle"
                                ELSE IF Len(wizard.todo) = 1 THEN "pipe?" ELSE "set"]
         /\ choice' = IF e.key # "exit" /\ Len(wizard.todo) = 1 THEN "whole" ELSE "torn"
    /\ UNCHANGED <<installed, shell, server, runs, crashes, origin, lost>>

\* No pipe is found, or the user quits; or the pipe is set.
ChoosePipe ==
    /\ wizard.pc = "pipe?"
    /\ \/ Goto("idle") /\ UNCHANGED file
       \/ \E p \in Pipes : file' = SetParam(file, "input_pipe", p) /\ Goto("restart")
    /\ UNCHANGED <<installed, shell, server, runs, crashes, origin, lost, choice>>

\* enable_service_and_exit: systemctl restart.
RestartService ==
    /\ wizard.pc = "restart"
    /\ server' = [pc |-> "starting", read |-> <<>>, tries |-> 0]
    /\ Goto("idle")
    /\ UNCHANGED <<file, installed, shell, runs, crashes, origin, lost, choice>>

\* disable_service_and_exit: systemctl stop.
StopService ==
    /\ wizard.pc = "stop"
    /\ server' = [server EXCEPT !.pc = "stopped"]
    /\ Goto("idle")
    /\ UNCHANGED <<file, installed, shell, runs, crashes, origin, lost, choice>>

\* The script is interrupted at any point, between two keys too, and the server it
\* runs with -c with it: Ctrl-C.
Interrupt ==
    /\ wizard.pc # "idle"
    /\ wizard' = [pc |-> "idle", todo |-> <<>>, next |-> "idle"]
    /\ shell' = [pc |-> "none", read |-> <<>>]
    /\ UNCHANGED <<file, installed, server, runs, crashes, origin, lost, choice>>

WizardStep ==
    \/ Begin \/ WipeFile \/ ShellReads \/ ShellWrites \/ EnablePrompt \/ ChooseModel
    \/ SetNextParam \/ ChoosePipe \/ RestartService \/ StopService \/ Interrupt

ConfNext == ServerStep \/ ServerDies \/ WizardStep

\* Nobody has to run the wizard or to answer its prompts; a server that was
\* started runs.
ConfSpec == ConfInit /\ [][ConfNext]_confVars /\ WF_server(ServerStep)
-----------------------------------------------------------------------------
(***************************************************************************)
(* Properties.                                                               *)
(***************************************************************************)
Idle == wizard.pc = "idle"

\* The type invariant: in the file, and in what any program read of it, a key
\* occurs once however often sed and config_file_read have edited it.
ConfTypeOK ==
    /\ file \in [entries : Seq(Line), dangling : BOOLEAN] /\ IsEntries(file.entries)
    /\ shell \in [pc : {"none", "write"}, read : Seq(Line)] /\ IsEntries(shell.read)
    /\ server \in [pc : {"stopped", "starting", "write", "build", "serving", "gave_up"},
                   read : Seq(Line), tries : 0 .. BurstLimit]
    /\ IsEntries(server.read)
    /\ wizard \in [pc : {"idle", "update", "wipe", "enable?", "model?", "set", "pipe?",
                         "restart", "stop"},
                   todo : Seq([key : KeysOf(Factory) \cup {"exit"}, value : Values \cup {"1"}]),
                   next : {"idle", "enable?", "restart", "stop"}]
    /\ installed \in InstalledSets
    /\ runs \in 0 .. MaxRuns /\ crashes \in 0 .. MaxCrashes
    /\ lost \in BOOLEAN /\ choice \in {"none", "torn", "whole"}

\* A file that has every key, the last one a key the wizard never sets, or one to
\* be written anew, when the history begins.
Complete(f) ==
    \/ f = Missing
    \/ /\ ~f.dangling
       /\ KeysOf(f.entries) = KeysOf(Factory)
       /\ Last(f.entries).key = "output_pipe_prefix"

\* sed leaves a comma behind the last key and the file cannot be parsed any more:
\* no sequence of runs and restarts does that to a file this version wrote, whose
\* last key the wizard never sets (config_file.cpp:61-64), unless a write-back has
\* brought back an older one.
OwnFileStaysParsable == file.dangling => ~Complete(origin) \/ lost

\* A server writes back the file as it read it, so that keys set meanwhile are
\* lost: that needs a file that missed a key, or was wiped, when it was read.
LostOnlyFromIncomplete == lost => origin = Missing \/ ~Complete(origin)

\* The labels each model was trained with.
TrainedLabels ==
    [mobilenet |-> "coco_labels", deeplab |-> "cityscapes_labels",
     efficientnet |-> "imagenet_labels", yolov5 |-> "yolov5_labels",
     yolov8 |-> "yolov5_labels", yolov11 |-> "yolov5_labels"]

Coherent(f) ==
    LET m == ValueOf(f.entries, "model") IN
    m \in DOMAIN TrainedLabels =>
        /\ ValueOf(f.entries, "labels") = TrainedLabels[m]
        /\ m \notin {"yolov8", "yolov11"} => RequiresLabels(f.entries)

\* Whether the file should describe one model: the last choice was carried through
\* to its last key, or there was none and the file of origin does.
ChoiceCounts ==
    /\ file # Missing /\ ~lost /\ Complete(origin)
    /\ \/ choice = "whole"
       \/ choice = "none" /\ (origin = Missing \/ Coherent(origin))

\* Runs may be quit, interrupted or fail between two keys, choose models in any
\* order, and race the server: after a choice that was carried through the labels
\* are those of the model, and are required, but for YOLOv8 and YOLOv11, which
\* leave requires_labels as it was.  A choice that was cut off may leave anything.
FileStaysCoherent == ChoiceCounts => Coherent(file)

\* What each family of models needs to have its tensors decoded.
Decodes ==
    [mobilenet |-> "GenericObjectDetection", mobilenet_nnapi |-> "GenericObjectDetection",
     classifier |-> "GenericClassification", fastdepth |-> "FastDepth",
     deeplab |-> "DeepLab", efficientnet |-> "GenericClassification",
     movenet |-> "PoseNet", yolov5 |-> "YoloV5", yolov8 |-> "YoloV8", yolov11 |-> "YoloV8",
     gate_xyz |-> "GateXyz", gate_yaw |-> "GateYaw", gate_bin |-> "GateBin"]

\* A server that serves runs the helper of its model's family on a model and labels
\* that exist, whatever falls through the switch of create_model_helper; a model
\* under any other name, the wizard's custom YOLOv8 too, is taken for an SSD.
ServesItsFamily ==
    LET m == ValueOf(server.read, "model") IN
    server.pc = "serving" =>
        /\ HelperFor[m] = IF m \in DOMAIN Decodes THEN Decodes[m] ELSE "GenericObjectDetection"
        /\ m \in installed
        /\ m \notin {"fastdepth", "movenet", "gate_xyz", "gate_yaw", "gate_bin"} =>
              LabelsInUse(server.read) \in installed

\* What a choice is worth to the server: it was carried through, the service is
\* started, and the model and the labels it was trained with are installed.
ChoiceStarted ==
    LET m == ValueOf(file.entries, "model") IN
    /\ server.pc = "starting" /\ Idle
    /\ ChoiceCounts /\ choice = "whole"
    /\ m \in installed
    /\ m \in DOMAIN TrainedLabels => TrainedLabels[m] \in installed

\* Options 7 and 9 leave requires_labels as it was, false after FastDepth or PoseNet.
LabelsUnread ==
    /\ ValueOf(file.entries, "model") \in {"yolov8", "yolov11"}
    /\ ~RequiresLabels(file.entries)

\* Liveness: whatever was chosen, cut off, wiped or written back before, a server
\* started on the model the wizard reports as selected (lines 311-312 of the
\* script) comes to serve, unless the wizard is run again.  The exception fails
\* for good, with every file installed: YOLOv8 and YOLO11 without requires_labels,
\* whose constructor exits (yolov8_model_helper.cpp:11-18) until systemd gives up.
ChosenModelServes ==
    /\ (ChoiceStarted /\ ~LabelsUnread) ~> (server.pc = "serving" \/ ~Idle)
    /\ (ChoiceStarted /\ LabelsUnread) ~> (server.pc = "gave_up" \/ ~Idle)
=============================================================================
