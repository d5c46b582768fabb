--------------------------- MODULE MCConfiguration ---------------------------
EXTENDS Configuration

FactoryFile == [entries |-> Factory, dangling |-> FALSE]
Edited(f, key, value) == [f EXCEPT !.entries = SetParam(f, key, value).entries]

\* The model a team edited in by hand; it needs no labels.
GateFile == Edited(Edited(FactoryFile, "model", "gate_xyz"), "requires_labels", "false")

\* Labels that are not the model's.
MismatchedFile == Edited(FactoryFile, "labels", "imagenet_labels")

\* A file from before requires_labels and labels were keys.
OldFile == [FactoryFile EXCEPT !.entries =
                << Entry("model", "mobilenet"), Entry("input_pipe", "hires"),
                   Entry("output_pipe_prefix", "mobilenet") >>]

\* A hand-written file of a model without labels, whose key a start does not add.
UnlabelledFile == [FactoryFile EXCEPT !.entries =
                << Entry("model", "movenet"), Entry("input_pipe", "hires"),
                   Entry("requires_labels", "false"), Entry("output_pipe_prefix", "mobilenet") >>]

\* The keys in another order: the wizard sets the last one.
ReorderedFile == [FactoryFile EXCEPT !.entries = Reverse(Factory)]

MCInitialFiles ==
    { Missing, FactoryFile, GateFile, MismatchedFile, OldFile, UnlabelledFile, ReorderedFile }

\* A name main does not know, and one it knows.
MCTypedModels == { "custom", "deeplab" }

Labels == { "coco_labels", "cityscapes_labels", "imagenet_labels", "yolov5_labels" }
MCInstalledSets == { Models \cup Labels, (Models \cup Labels) \ { "yolov11", "imagenet_labels" } }
=============================================================================
