------------------------- MODULE ConfigurationProofs -------------------------
(***************************************************************************)
(* Proofs about Configuration, for every set of files that may be found and  *)
(* of models installed, every pipe, any number of runs of the wizard, of     *)
(* crashes and of retries: what unlocked edits by three programs cannot do   *)
(* to a complete file, and what is built from a file that can be read.       *)
(***************************************************************************)
EXTENDS Configuration, SequenceTheorems, TLAPS

\* The wizard has the keys of a choice from number k on still to set.
Remaining(o, k) == wizard.todo = SubSeq(o, k, Len(o))

\* A wizard that is setting keys is inside a choice, one that runs the server with
\* -c waits for it.
InStep ==
    /\ wizard.pc = "set" => \E o \in Options : \E k \in DOMAIN o : Remaining(o, k)
    /\ shell.pc = "write" => wizard.pc = "update"

\* What a server goes on with has a model.
ReadHasModel ==
    server.pc \in {"build", "serving"} => "model" \in KeysOf(server.read)

\* A serving server found the files of the helper it built.
ServesWhatStarts ==
    server.pc = "serving" => Starts(ValueOf(server.read, "model"), LabelsInUse(server.read))

\* A complete file stays complete, and nobody wants to write it back.
StaysComplete == Complete(origin) /\ ~lost => Complete(file)
NothingToWrite ==
    Complete(origin) /\ origin # Missing =>
        /\ ~lost
        /\ file # Missing
        /\ server.pc # "write" /\ shell.pc # "write"

\* From where on there is a file, when it describes one model, and how far the
\* model being chosen is in it.
Undisturbed == ~lost /\ Complete(origin)
Trusted ==
    \/ choice = "whole"
    \/ choice = "none" /\ (origin = Missing \/ Coherent(origin))
IsSet(entries, e) == e.key # "exit" => ValueOf(entries, e.key) = e.value
Choosing ==
    Undisturbed =>
        /\ wizard.pc \in {"enable?", "model?", "set", "pipe?"} => file # Missing
        /\ Trusted => file = Missing \/ Coherent(file)
        /\ wizard.pc = "set" =>
              \E o \in Options : \E k \in DOMAIN o :
                 /\ Remaining(o, k)
                 /\ \A j \in 1 .. k - 1 : IsSet(file.entries, o[j])

\* The inductive invariant.
ConfIInv ==
    /\ ConfTypeOK /\ InStep /\ ReadHasModel /\ ServesWhatStarts
    /\ StaysComplete /\ NothingToWrite /\ Choosing
-----------------------------------------------------------------------------
(***************************************************************************)
(* Keys and values.                                                          *)
(***************************************************************************)
Keys == {"model", "input_pipe", "requires_labels", "labels", "output_pipe_prefix"}

LEMMA FactoryFacts ==
    /\ Factory \in Seq(Line) /\ Len(Factory) = 5 /\ DOMAIN Factory = 1 .. 5
    /\ \A i \in 1 .. 5 : Factory[i] \in Line
    /\ KeysOf(Factory) = Keys
    /\ \A i, j \in 1 .. 5 : Factory[i].key = Factory[j].key => i = j
    /\ Factory[1] = Entry("model", "mobilenet")
    /\ Factory[5].key = "output_pipe_prefix"
<1>1. /\ DOMAIN Factory = 1 .. 5 /\ Len(Factory) = 5
      /\ Factory[1] = [key |-> "model", value |-> "mobilenet"]
      /\ Factory[2] = [key |-> "input_pipe", value |-> "hires"]
      /\ Factory[3] = [key |-> "requires_labels", value |-> "true"]
      /\ Factory[4] = [key |-> "labels", value |-> "coco_labels"]
      /\ Factory[5] = [key |-> "output_pipe_prefix", value |-> "mobilenet"]
  BY DEF Factory, Entry
<1>2. \A i \in 1 .. 5 : i = 1 \/ i = 2 \/ i = 3 \/ i = 4 \/ i = 5
  OBVIOUS
<1>3. KeysOf(Factory) = Keys
  BY <1>1, <1>2 DEF KeysOf, Keys
<1>4. \A i \in 1 .. 5 : Factory[i] \in Line
  <2>1. Factory[1] \in Line /\ Factory[2] \in Line
    BY <1>1, <1>3 DEF Line, Keys, Values, Models
  <2>2. Factory[3] \in Line /\ Factory[4] \in Line /\ Factory[5] \in Line
    BY <1>1, <1>3 DEF Line, Keys, Values, Models
  <2>3. QED
    BY <1>2, <2>1, <2>2
<1>5. Factory \in Seq(Line)
  <2>1. Factory = [i \in 1 .. 5 |-> Factory[i]]
    BY DEF Factory
  <2>2. [i \in 1 .. 5 |-> Factory[i]] \in [1 .. 5 -> Line]
    BY <1>4
  <2>3. QED
    BY <2>1, <2>2
<1>6. QED
  BY <1>1, <1>2, <1>3, <1>4, <1>5 DEF Entry

\* The value of a key is in one of its lines.
LEMMA ValueIsOfALine ==
    ASSUME NEW entries, NEW key \in KeysOf(entries)
    PROVE  \E i \in DOMAIN entries :
              entries[i].key = key /\ ValueOf(entries, key) = entries[i].value
<1>1. PICK i \in DOMAIN entries : entries[i].key = key
  BY DEF KeysOf
<1>2. (CHOOSE j \in DOMAIN entries : entries[j].key = key) \in DOMAIN entries
      /\ entries[CHOOSE j \in DOMAIN entries : entries[j].key = key].key = key
  BY <1>1
<1>3. QED
  BY <1>2 DEF ValueOf

\* So a file's model is one of the models.
LEMMA ModelIsAModel ==
    ASSUME NEW entries, IsEntries(entries), "model" \in KeysOf(entries)
    PROVE  ValueOf(entries, "model") \in Models
BY ValueIsOfALine DEF IsEntries
-----------------------------------------------------------------------------
(***************************************************************************)
(* sed: set_param keeps every key where it is.                               *)
(***************************************************************************)
LEMMA SetParamLines ==
    ASSUME NEW f, IsEntries(f.entries), NEW key, NEW value
    PROVE  LET new == SetParam(f, key, value).entries IN
           /\ DOMAIN new = DOMAIN f.entries
           /\ \A i \in DOMAIN new : new[i].key = f.entries[i].key
           /\ \A i \in DOMAIN new :
                 new[i].value = IF f.entries[i].key = key THEN value ELSE f.entries[i].value
           /\ KeysOf(new) = KeysOf(f.entries)
           /\ \A k \in KeysOf(f.entries) :
                 ValueOf(new, k) = IF k = key THEN value ELSE ValueOf(f.entries, k)
<1>. DEFINE new == SetParam(f, key, value).entries
<1>1. new = [i \in DOMAIN f.entries |->
                IF f.entries[i].key = key THEN [key |-> key, value |-> value]
                ELSE f.entries[i]]
  BY DEF SetParam, Entry
<1>2. DOMAIN new = DOMAIN f.entries
  BY <1>1
<1>3. \A i \in DOMAIN new : new[i].key = f.entries[i].key
  BY <1>1
<1>4. \A i \in DOMAIN new :
         new[i].value = IF f.entries[i].key = key THEN value ELSE f.entries[i].value
  BY <1>1
<1>. HIDE DEF new
<1>5. KeysOf(new) = KeysOf(f.entries)
  BY <1>2, <1>3 DEF KeysOf
<1>6. ASSUME NEW k \in KeysOf(f.entries)
      PROVE  ValueOf(new, k) = IF k = key THEN value ELSE ValueOf(f.entries, k)
  <2>. DEFINE c == CHOOSE i \in DOMAIN f.entries : f.entries[i].key = k
  <2>1. (CHOOSE i \in DOMAIN new : new[i].key = k) = c
    BY <1>2, <1>3, Zenon
  <2>2. c \in DOMAIN f.entries /\ f.entries[c].key = k
    BY DEF KeysOf
  <2>3. ValueOf(new, k) = new[c].value
    BY <2>1 DEF ValueOf
  <2>4. ValueOf(f.entries, k) = f.entries[c].value
    BY DEF ValueOf
  <2>. HIDE DEF c
  <2>5. QED
    BY <1>2, <1>4, <2>2, <2>3, <2>4
<1>7. QED
  BY <1>2, <1>3, <1>4, <1>5, <1>6 DEF new

\* A file that can be read stays one, but perhaps for the comma.
LEMMA SetParamReads ==
    ASSUME NEW f, IsEntries(f.entries), f.dangling \in BOOLEAN,
           NEW key \in Keys, NEW value \in Values, key = "model" => value \in Models
    PROVE  /\ SetParam(f, key, value) \in [entries : Seq(Line), dangling : BOOLEAN]
           /\ IsEntries(SetParam(f, key, value).entries)
<1>. DEFINE new == SetParam(f, key, value).entries
<1>1. /\ DOMAIN new = DOMAIN f.entries
      /\ \A i \in DOMAIN new : new[i].key = f.entries[i].key
      /\ \A i \in DOMAIN new :
            new[i].value = IF f.entries[i].key = key THEN value ELSE f.entries[i].value
  BY SetParamLines
<1>2. new = [i \in DOMAIN f.entries |->
                IF f.entries[i].key = key THEN [key |-> key, value |-> value]
                ELSE f.entries[i]]
  BY DEF SetParam, Entry
<1>3. f.entries \in Seq(Line)
  BY DEF IsEntries
<1>4. DOMAIN f.entries = 1 .. Len(f.entries) /\ Len(f.entries) \in Nat
      /\ \A i \in DOMAIN f.entries : f.entries[i] \in Line
  BY <1>3
<1>5. [key |-> key, value |-> value] \in Line
  BY FactoryFacts DEF Line
<1>6. new \in [1 .. Len(f.entries) -> Line]
  BY <1>2, <1>4, <1>5
<1>7. new \in Seq(Line)
  BY <1>4, <1>6
<1>8. IsEntries(new)
  <2>1. \A i, j \in DOMAIN new : new[i].key = new[j].key => i = j
    BY <1>1 DEF IsEntries
  <2>2. \A i \in DOMAIN new : new[i].key = "model" => new[i].value \in Models
    BY <1>1 DEF IsEntries
  <2>3. QED
    BY <1>7, <2>1, <2>2 DEF IsEntries
<1>9. SetParam(f, key, value).dangling \in BOOLEAN
  BY DEF SetParam
<1>10. SetParam(f, key, value) = [entries |-> new, dangling |-> SetParam(f, key, value).dangling]
  BY DEF SetParam
<1>11. QED
  BY <1>7, <1>8, <1>9, <1>10

\* A complete file that is one stays one: the last key is not one of the wizard's.
LEMMA SetParamCompletes ==
    ASSUME NEW f, IsEntries(f.entries), Complete(f), f # Missing,
           NEW key, key # "output_pipe_prefix", NEW value
    PROVE  /\ Complete(SetParam(f, key, value))
           /\ SetParam(f, key, value) # Missing
           /\ KeysOf(f.entries) = Keys
<1>. DEFINE new == SetParam(f, key, value).entries
<1>1. /\ ~f.dangling /\ KeysOf(f.entries) = Keys
      /\ Last(f.entries).key = "output_pipe_prefix"
  BY FactoryFacts DEF Complete
<1>2. f.entries # <<>>
  BY <1>1 DEF KeysOf, Keys
<1>3. /\ DOMAIN new = DOMAIN f.entries
      /\ \A i \in DOMAIN new : new[i].key = f.entries[i].key
      /\ KeysOf(new) = KeysOf(f.entries)
  BY SetParamLines
<1>4. f.entries \in Seq(Line)
  BY DEF IsEntries
<1>5. Len(f.entries) \in DOMAIN f.entries /\ Last(f.entries) = f.entries[Len(f.entries)]
      /\ DOMAIN f.entries = 1 .. Len(f.entries) /\ Len(f.entries) \in Nat
  BY <1>2, <1>4 DEF Last
<1>6. new = [i \in DOMAIN f.entries |->
                IF f.entries[i].key = key THEN [key |-> key, value |-> value]
                ELSE f.entries[i]]
  BY DEF SetParam, Entry
<1>7. Len(new) = Len(f.entries)
  BY <1>5, <1>6
<1>8. Last(new).key = "output_pipe_prefix"
  BY <1>1, <1>3, <1>5, <1>7 DEF Last
<1>9. ~SetParam(f, key, value).dangling
  BY <1>1 DEF SetParam
<1>10. new # <<>>
  BY <1>5, <1>7
<1>11. QED
  BY <1>1, <1>3, <1>8, <1>9, <1>10, FactoryFacts DEF Complete, Missing

\* There is nothing to set in a file that is missing.
LEMMA SetParamMissing ==
    ASSUME NEW key, NEW value
    PROVE  SetParam(Missing, key, value) = Missing
BY DEF SetParam, Missing
-----------------------------------------------------------------------------
(***************************************************************************)
(* config_file_read: the keys that are missing.                              *)
(***************************************************************************)

\* The keys fetched before number n are there, and no other has been added.
FetchedBefore(entries, new, n) ==
    /\ IsEntries(new)
    /\ KeysOf(entries) \subseteq KeysOf(new)
    /\ \A key \in KeysOf(new) :
          key \in KeysOf(entries) \/ \E i \in 1 .. n - 1 : key = Factory[i].key
    /\ n > 1 => "model" \in KeysOf(new)

LEMMA FetchStep ==
    ASSUME NEW entries, NEW new, NEW n \in 1 .. 5, FetchedBefore(entries, new, n)
    PROVE  FetchedBefore(entries, new \o Fetched(entries, Factory[n]), n + 1)
<1>. DEFINE e == Factory[n]
            more == new \o Fetched(entries, e)
<1>1. new \in Seq(Line) /\ e \in Line
  <2>1. new \in Seq(Line)
    BY DEF FetchedBefore, IsEntries
  <2>2. QED
    BY <2>1, FactoryFacts
<1>2. CASE Fetched(entries, e) = <<>>
  <2>1. more = new
    BY <1>1, <1>2
  <2>2. "model" \in KeysOf(new)
    <3>1. n = 1 => e.key = "model"
      BY FactoryFacts DEF Entry
    <3>2. n = 1 => e.key \in KeysOf(entries)
      BY <1>2, <3>1 DEF Fetched
    <3>3. QED
      BY <3>1, <3>2 DEF FetchedBefore
  <2>3. QED
    BY <2>1, <2>2 DEF FetchedBefore
<1>3. CASE Fetched(entries, e) # <<>>
  <2>1. e.key \notin KeysOf(entries) /\ more = Append(new, e)
    BY <1>1, <1>3 DEF Fetched
  <2>2. e.key \notin KeysOf(new)
    BY <2>1, FactoryFacts DEF FetchedBefore
  <2>. DEFINE len == Len(new)
  <2>3. /\ len \in Nat /\ DOMAIN new = 1 .. len /\ DOMAIN more = 1 .. len + 1
        /\ \A i \in 1 .. len : more[i] = new[i]
        /\ more[len + 1] = e
        /\ more \in Seq(Line)
    BY <1>1, <2>1
  <2>. HIDE DEF more, len
  <2>4. \A i \in 1 .. len : new[i].key # e.key
    BY <2>2, <2>3 DEF KeysOf
  <2>5. \A i, j \in DOMAIN more : more[i].key = more[j].key => i = j
    <3>1. SUFFICES ASSUME NEW i \in 1 .. len + 1, NEW j \in 1 .. len + 1,
                          more[i].key = more[j].key
                   PROVE  i = j
      BY <2>3
    <3>2. CASE i \in 1 .. len /\ j \in 1 .. len
      BY <2>3, <3>1, <3>2 DEF FetchedBefore, IsEntries
    <3>3. CASE i = len + 1 /\ j \in 1 .. len
      BY <2>3, <2>4, <3>1, <3>3
    <3>4. CASE i \in 1 .. len /\ j = len + 1
      BY <2>3, <2>4, <3>1, <3>4
    <3>5. QED
      BY <2>3, <3>2, <3>3, <3>4
  <2>6. \A i \in DOMAIN more : more[i].key = "model" => more[i].value \in Models
    <3>1. e.key = "model" => e.value \in Models
      BY FactoryFacts DEF Entry, Models
    <3>2. \A i \in 1 .. len : new[i].key = "model" => new[i].value \in Models
      BY <2>3 DEF FetchedBefore, IsEntries
    <3>3. QED
      BY <2>3, <3>1, <3>2
  <2>7. KeysOf(more) = KeysOf(new) \cup {e.key}
    BY <2>3 DEF KeysOf
  <2>8. n = 1 => e.key = "model"
    BY FactoryFacts DEF Entry
  <2>9. n \in 1 .. n /\ (\A i \in 1 .. n - 1 : i \in 1 .. n) /\ (n + 1) - 1 = n
    OBVIOUS
  <2>10. \A key \in KeysOf(more) :
            key \in KeysOf(entries) \/ \E i \in 1 .. (n + 1) - 1 : key = Factory[i].key
    BY <2>7, <2>9 DEF FetchedBefore
  <2>11. "model" \in KeysOf(more)
    BY <2>7, <2>8 DEF FetchedBefore
  <2>12. IsEntries(more)
    BY <2>3, <2>5, <2>6 DEF IsEntries
  <2>13. QED
    BY <2>7, <2>10, <2>11, <2>12 DEF FetchedBefore, more
<1>4. QED
  BY <1>2, <1>3

\* What a reader goes on with can be read again, and has a model.
LEMMA WithDefaultsReads ==
    ASSUME NEW entries, IsEntries(entries)
    PROVE  IsEntries(WithDefaults(entries)) /\ "model" \in KeysOf(WithDefaults(entries))
<1>. DEFINE n1 == entries \o Fetched(entries, Factory[1])
            n2 == n1 \o Fetched(entries, Factory[2])
            n3 == n2 \o Fetched(entries, Factory[3])
            n4 == n3 \o Fetched(entries, Factory[4])
            n5 == n4 \o Fetched(entries, Factory[5])
<1>0. FetchedBefore(entries, entries, 1)
  BY DEF FetchedBefore
<1>1. FetchedBefore(entries, n1, 2)
  BY <1>0, FetchStep
<1>2. FetchedBefore(entries, n2, 3)
  BY <1>1, FetchStep
<1>3. FetchedBefore(entries, n3, 4)
  BY <1>2, FetchStep
<1>4. FetchedBefore(entries, n4, 5)
  BY <1>3, FetchStep
<1>5. FetchedBefore(entries, n5, 6)
  BY <1>4, FetchStep
<1>6. QED
  BY <1>5 DEF FetchedBefore, WithDefaults

\* A missing file is written anew, as the factory's.
BeginsFactory(s, n) == s \in Seq(Line) /\ Len(s) = n /\ \A i \in 1 .. n : s[i] = Factory[i]

LEMMA FactoryStep ==
    ASSUME NEW s, NEW n \in 0 .. 4, BeginsFactory(s, n)
    PROVE  BeginsFactory(s \o Fetched(<<>>, Factory[n + 1]), n + 1)
<1>1. Fetched(<<>>, Factory[n + 1]) = <<Factory[n + 1]>>
  BY DEF Fetched, KeysOf, RequiresLabels
<1>2. n + 1 \in 1 .. 5 /\ Factory[n + 1] \in Line
  BY FactoryFacts
<1>3. s \in Seq(Line) /\ Len(s) = n /\ \A i \in 1 .. n : s[i] = Factory[i]
  BY DEF BeginsFactory
<1>. DEFINE e == Factory[n + 1]
            t == s \o <<e>>
<1>4. /\ t \in Seq(Line) /\ Len(t) = n + 1
      /\ \A i \in 1 .. n : t[i] = s[i]
      /\ t[n + 1] = e
  <2>. HIDE DEF e
  <2>1. QED
    BY <1>2, <1>3 DEF e
<1>. HIDE DEF t
<1>5. \A i \in 1 .. n + 1 : t[i] = Factory[i]
  BY <1>3, <1>4
<1>6. QED
  BY <1>1, <1>4, <1>5 DEF BeginsFactory, t

LEMMA WithDefaultsOfNothing == WithDefaults(<<>>) = Factory
<1>. DEFINE n1 == <<>> \o Fetched(<<>>, Factory[1])
            n2 == n1 \o Fetched(<<>>, Factory[2])
            n3 == n2 \o Fetched(<<>>, Factory[3])
            n4 == n3 \o Fetched(<<>>, Factory[4])
            n5 == n4 \o Fetched(<<>>, Factory[5])
<1>0. BeginsFactory(<<>>, 0)
  BY DEF BeginsFactory
<1>1. BeginsFactory(n1, 1)
  <2>1. 0 \in 0 .. 4 /\ 0 + 1 = 1
    OBVIOUS
  <2>2. BeginsFactory(<<>> \o Fetched(<<>>, Factory[0 + 1]), 0 + 1)
    BY <1>0, <2>1, FactoryStep, Zenon
  <2>3. QED
    BY <2>1, <2>2, Zenon
<1>2. BeginsFactory(n2, 2)
  BY <1>1, FactoryStep
<1>3. BeginsFactory(n3, 3)
  BY <1>2, FactoryStep
<1>4. BeginsFactory(n4, 4)
  BY <1>3, FactoryStep
<1>5. BeginsFactory(n5, 5)
  BY <1>4, FactoryStep
<1>6. WithDefaults(<<>>) = n5
  BY DEF WithDefaults
<1>. HIDE DEF n5
<1>7. n5 = Factory
  BY <1>5, FactoryFacts DEF BeginsFactory
<1>8. QED
  BY <1>6, <1>7

\* A file with every key is not modified.
LEMMA WithDefaultsOfAll ==
    ASSUME NEW entries, IsEntries(entries), KeysOf(entries) = Keys
    PROVE  WithDefaults(entries) = entries
<1>1. \A i \in 1 .. 5 : Factory[i].key \in KeysOf(entries)
  BY FactoryFacts DEF KeysOf
<1>2. \A i \in 1 .. 5 : Fetched(entries, Factory[i]) = <<>>
  BY <1>1 DEF Fetched
<1>3. entries \in Seq(Line)
  BY DEF IsEntries
<1>4. QED
  BY <1>2, <1>3 DEF WithDefaults

\* A complete file is complete after a write-back, and is not modified by one
\* unless it was missing.
LEMMA WriteBackCompletes ==
    ASSUME NEW f, IsEntries(f.entries), Complete(f)
    PROVE  /\ Complete([entries |-> WithDefaults(f.entries), dangling |-> FALSE])
           /\ [entries |-> WithDefaults(f.entries), dangling |-> FALSE] # Missing
           /\ f # Missing => ~Modified(f.entries)
           /\ f # Missing => WithDefaults(f.entries) = f.entries
           /\ f = Missing => WithDefaults(f.entries) = Factory
<1>1. CASE f = Missing
  <2>1. WithDefaults(f.entries) = Factory
    BY <1>1, WithDefaultsOfNothing DEF Missing
  <2>2. Last(Factory).key = "output_pipe_prefix"
    BY FactoryFacts DEF Last
  <2>3. Factory # <<>>
    BY DEF Factory
  <2>. DEFINE new == [entries |-> WithDefaults(f.entries), dangling |-> FALSE]
  <2>4. new.entries = Factory /\ ~new.dangling
    BY <2>1
  <2>5. Missing.entries = <<>>
    BY DEF Missing
  <2>. HIDE DEF new
  <2>6. new # Missing /\ Complete(new)
    BY <2>2, <2>3, <2>4, <2>5 DEF Complete
  <2>7. QED
    BY <1>1, <2>1, <2>6 DEF new
<1>2. CASE f # Missing
  <2>1. /\ ~f.dangling /\ KeysOf(f.entries) = Keys
        /\ Last(f.entries).key = "output_pipe_prefix"
    BY <1>2, FactoryFacts DEF Complete
  <2>2. WithDefaults(f.entries) = f.entries
    BY <2>1, WithDefaultsOfAll
  <2>3. f.entries # <<>>
    BY <2>1 DEF KeysOf, Keys
  <2>4. QED
    BY <1>2, <2>1, <2>2, <2>3, FactoryFacts DEF Complete, Modified, Missing
<1>3. QED
  BY <1>1, <1>2
-----------------------------------------------------------------------------
(***************************************************************************)
(* create_model_helper: what each model known by name gets.                  *)
(***************************************************************************)

\* A case that builds something for its category is the one that returns.
LEMMA OwnCaseReturns ==
    ASSUME NEW n \in DOMAIN Switch, NEW category, NEW helper,
           \A i \in DOMAIN Switch : Switch[i].name = Switch[n].name => i = n,
           DOMAIN Switch = 1 .. Len(Switch), Len(Switch) \in Nat,
           Builds(n, category) = {helper}
    PROVE  CreateModelHelper(Switch[n].name, category) = helper
<1>. DEFINE at == CHOOSE i \in DOMAIN Switch : Switch[i].name = Switch[n].name
            returns == { i \in at .. Len(Switch) :
                /\ Builds(i, category) # {}
                /\ \A j \in at .. i - 1 : Builds(j, category) = {} /\ ~Switch[j].break }
<1>1. at = n
  OBVIOUS
<1>2. returns = {n}
  <2>1. n \in returns
    <3>1. n \in n .. Len(Switch) /\ n .. n - 1 = {}
      OBVIOUS
    <3>2. Builds(n, category) # {}
      OBVIOUS
    <3>. HIDE DEF at
    <3>3. QED
      BY <1>1, <3>1, <3>2
  <2>2. ASSUME NEW i \in returns PROVE i = n
    <3>1. i \in n .. Len(Switch) /\ \A j \in n .. i - 1 : Builds(j, category) = {}
      BY <1>1
    <3>2. i # n => n \in n .. i - 1
      BY <3>1
    <3>3. QED
      BY <3>1, <3>2
  <2>3. QED
    BY <2>1, <2>2
<1>3. CreateModelHelper(Switch[n].name, category)
        = IF returns = {} THEN "nullptr"
          ELSE CHOOSE h \in Builds(CHOOSE i \in returns : TRUE, category) : TRUE
  BY DEF CreateModelHelper
<1>. HIDE DEF at, returns
<1>4. (CHOOSE i \in returns : TRUE) = n
  BY <1>2
<1>5. (CHOOSE h \in Builds(n, category) : TRUE) = helper
  BY DEF Builds
<1>6. QED
  BY <1>2, <1>3, <1>4, <1>5

LEMMA SwitchFacts ==
    /\ DOMAIN Switch = 1 .. Len(Switch) /\ Len(Switch) = 12
    /\ \A i, j \in DOMAIN Switch : Switch[i].name = Switch[j].name => i = j
    /\ Switch[1].name = "POSENET" /\ Switch[2].name = "YOLOV5" /\ Switch[3].name = "YOLOV8"
    /\ Switch[4].name = "MOBILE_NET" /\ Switch[5].name = "FAST_DEPTH"
    /\ Switch[6].name = "DEEPLAB" /\ Switch[7].name = "EFFICIENT_NET"
    /\ Switch[8].name = "YOLOV11" /\ Switch[9].name = "GATE_XYZ"
    /\ Switch[10].name = "GATE_YAW" /\ Switch[11].name = "GATE_BIN"
    /\ Switch[12].name = "PLACEHOLDER"
<1>1. /\ DOMAIN Switch = 1 .. 12 /\ Len(Switch) = 12
      /\ Switch[1].name = "POSENET" /\ Switch[2].name = "YOLOV5" /\ Switch[3].name = "YOLOV8"
      /\ Switch[4].name = "MOBILE_NET" /\ Switch[5].name = "FAST_DEPTH"
      /\ Switch[6].name = "DEEPLAB" /\ Switch[7].name = "EFFICIENT_NET"
      /\ Switch[8].name = "YOLOV11" /\ Switch[9].name = "GATE_XYZ"
      /\ Switch[10].name = "GATE_YAW" /\ Switch[11].name = "GATE_BIN"
      /\ Switch[12].name = "PLACEHOLDER"
  BY DEF Switch, Case
<1>2. \A i \in 1 .. 12 : i = 1 \/ i = 2 \/ i = 3 \/ i = 4 \/ i = 5 \/ i = 6 \/ i = 7
                         \/ i = 8 \/ i = 9 \/ i = 10 \/ i = 11 \/ i = 12
  OBVIOUS
<1>3. QED
  BY <1>1, <1>2

\* What main makes of the name of a model: the helper that decodes its family.
FamilyOf(m) == IF m \in DOMAIN Decodes THEN Decodes[m] ELSE "GenericObjectDetection"

LEMMA HelperIsOfFamily ==
    ASSUME NEW m \in Models
    PROVE  HelperFor[m] = FamilyOf(m)
<1>0. HelperFor[m] = CreateModelHelper(Settings(m)[1], Settings(m)[2])
  BY DEF HelperFor
<1>1. ASSUME NEW n \in 1 .. 12, NEW category, NEW helper,
             Settings(m) = <<Switch[n].name, category>>, Builds(n, category) = {helper}
      PROVE  HelperFor[m] = helper
  <2>1. /\ n \in DOMAIN Switch /\ DOMAIN Switch = 1 .. Len(Switch) /\ Len(Switch) \in Nat
        /\ \A i \in DOMAIN Switch : Switch[i].name = Switch[n].name => i = n
    BY SwitchFacts
  <2>2. CreateModelHelper(Switch[n].name, category) = helper
    BY <1>1, <2>1, OwnCaseReturns
  <2>3. QED
    BY <1>0, <1>1, <2>2
<1>2. CASE m \in {"mobilenet", "mobilenet_nnapi"}
  <2>1. Builds(4, "OBJECT_DETECTION") = {"GenericObjectDetection"}
    BY DEF Builds, Switch, Case
  <2>2. Settings(m) = <<Switch[4].name, "OBJECT_DETECTION">>
    BY <1>2, SwitchFacts DEF Settings
  <2>3. QED
    BY <1>1, <1>2, <2>1, <2>2 DEF FamilyOf, Decodes
<1>3. CASE m = "classifier"
  <2>1. Builds(4, "CLASSIFICATION") = {"GenericClassification"}
    BY DEF Builds, Switch, Case
  <2>2. Settings(m) = <<Switch[4].name, "CLASSIFICATION">>
    BY <1>3, SwitchFacts DEF Settings
  <2>3. QED
    BY <1>1, <1>3, <2>1, <2>2 DEF FamilyOf, Decodes
<1>4. CASE m = "fastdepth"
  <2>1. Builds(5, "MONO_DEPTH") = {"FastDepth"}
    BY DEF Builds, Switch, Case
  <2>2. Settings(m) = <<Switch[5].name, "MONO_DEPTH">>
    BY <1>4, SwitchFacts DEF Settings
  <2>3. QED
    BY <1>1, <1>4, <2>1, <2>2 DEF FamilyOf, Decodes
<1>5. CASE m = "deeplab"
  <2>1. Builds(6, "SEGMENTATION") = {"DeepLab"}
    BY DEF Builds, Switch, Case
  <2>2. Settings(m) = <<Switch[6].name, "SEGMENTATION">>
    BY <1>5, SwitchFacts DEF Settings
  <2>3. QED
    BY <1>1, <1>5, <2>1, <2>2 DEF FamilyOf, Decodes
<1>6. CASE m = "efficientnet"
  <2>1. Builds(7, "CLASSIFICATION") = {"GenericClassification"}
    BY DEF Builds, Switch, Case
  <2>2. Settings(m) = <<Switch[7].name, "CLASSIFICATION">>
    BY <1>6, SwitchFacts DEF Settings
  <2>3. QED
    BY <1>1, <1>6, <2>1, <2>2 DEF FamilyOf, Decodes
<1>7. CASE m = "movenet"
  <2>1. Builds(1, "POSE") = {"PoseNet"}
    BY DEF Builds, Switch, Case
  <2>2. Settings(m) = <<Switch[1].name, "POSE">>
    BY <1>7, SwitchFacts DEF Settings
  <2>3. QED
    BY <1>1, <1>7, <2>1, <2>2 DEF FamilyOf, Decodes
<1>8. CASE m = "yolov5"
  <2>1. Builds(2, "OBJECT_DETECTION") = {"YoloV5"}
    BY DEF Builds, Switch, Case
  <2>2. Settings(m) = <<Switch[2].name, "OBJECT_DETECTION">>
    BY <1>8, SwitchFacts DEF Settings
  <2>3. QED
    BY <1>1, <1>8, <2>1, <2>2 DEF FamilyOf, Decodes
<1>9. CASE m = "yolov8"
  <2>1. Builds(3, "OBJECT_DETECTION") = {"YoloV8"}
    BY DEF Builds, Switch, Case
  <2>2. Settings(m) = <<Switch[3].name, "OBJECT_DETECTION">>
    BY <1>9, SwitchFacts DEF Settings
  <2>3. QED
    BY <1>1, <1>9, <2>1, <2>2 DEF FamilyOf, Decodes
<1>10. CASE m = "yolov11"
  <2>1. Builds(8, "OBJECT_DETECTION") = {"YoloV8"}
    BY DEF Builds, Switch, Case
  <2>2. Settings(m) = <<Switch[8].name, "OBJECT_DETECTION">>
    BY <1>10, SwitchFacts DEF Settings
  <2>3. QED
    BY <1>1, <1>10, <2>1, <2>2 DEF FamilyOf, Decodes
<1>11. CASE m = "gate_xyz"
  <2>1. Builds(9, "OBJECT_DETECTION") = {"GateXyz"}
    BY DEF Builds, Switch, Case
  <2>2. Settings(m) = <<Switch[9].name, "OBJECT_DETECTION">>
    BY <1>11, SwitchFacts DEF Settings
  <2>3. QED
    BY <1>1, <1>11, <2>1, <2>2 DEF FamilyOf, Decodes
<1>12. CASE m = "gate_yaw"
  <2>1. Builds(10, "OBJECT_DETECTION") = {"GateYaw"}
    BY DEF Builds, Switch, Case
  <2>2. Settings(m) = <<Switch[10].name, "OBJECT_DETECTION">>
    BY <1>12, SwitchFacts DEF Settings
  <2>3. QED
    BY <1>1, <1>12, <2>1, <2>2 DEF FamilyOf, Decodes
<1>13. CASE m = "gate_bin"
  <2>1. Builds(11, "OBJECT_DETECTION") = {"GateBin"}
    BY DEF Builds, Switch, Case
  <2>2. Settings(m) = <<Switch[11].name, "OBJECT_DETECTION">>
    BY <1>13, SwitchFacts DEF Settings
  <2>3. QED
    BY <1>1, <1>13, <2>1, <2>2 DEF FamilyOf, Decodes
<1>14. CASE m = "custom"
  <2>1. Builds(12, "OBJECT_DETECTION") = {"GenericObjectDetection"}
    BY DEF Builds, Switch, Case
  <2>2. Settings(m) = <<Switch[12].name, "OBJECT_DETECTION">>
    BY <1>14, SwitchFacts DEF Settings
  <2>3. QED
    BY <1>1, <1>14, <2>1, <2>2 DEF FamilyOf, Decodes
<1>15. QED
  BY <1>2, <1>3, <1>4, <1>5, <1>6, <1>7, <1>8, <1>9, <1>10, <1>11, <1>12, <1>13, <1>14 DEF Models
-----------------------------------------------------------------------------
(***************************************************************************)
(* The choices of the menu.                                                  *)
(***************************************************************************)
OptionLine == [key : {"model", "requires_labels", "labels", "exit"}, value : Values \cup {"1"}]

\* What every choice is like: it sets the model first, no key twice, and what it
\* sets last before the script ends is no key.
OptionShape(s) ==
    /\ s \in Seq(OptionLine)
    /\ Len(s) \in {2, 3}
    /\ \A i, j \in 1 .. Len(s) : s[i].key = s[j].key => i = j
    /\ \A i \in 1 .. Len(s) :
          /\ s[i].key = "model" => s[i].value \in Models
          /\ s[i].key = "exit" => i = Len(s)
          /\ s[i].key # "exit" => s[i].value \in Values

\* A choice that does not end the script has the labels of its model, and sets the
\* flag but for YOLOv8 and YOLOv11.
OptionTrains(s) ==
    /\ s[1].key = "model"
    /\ s[Len(s)].key # "exit" /\ s[1].value \in DOMAIN TrainedLabels =>
          /\ \E j \in 1 .. Len(s) : s[j].key = "labels" /\ s[j].value = TrainedLabels[s[1].value]
          /\ s[1].value \notin {"yolov8", "yolov11"} =>
                \E j \in 1 .. Len(s) : s[j].key = "requires_labels" /\ s[j].value = "true"

LEMMA ThreeLines ==
    ASSUME NEW s, NEW m \in Models, NEW l \in Values,
           s = << Entry("model", m), Entry("requires_labels", "true"), Entry("labels", l) >>,
           m \in DOMAIN TrainedLabels => l = TrainedLabels[m]
    PROVE  OptionShape(s) /\ OptionTrains(s)
<1>1. /\ s \in Seq(OptionLine) /\ Len(s) = 3
      /\ s[1] = [key |-> "model", value |-> m]
      /\ s[2] = [key |-> "requires_labels", value |-> "true"]
      /\ s[3] = [key |-> "labels", value |-> l]
  <2>1. "true" \in Values /\ m \in Values
    BY DEF Values
  <2>2. /\ [key |-> "model", value |-> m] \in OptionLine
        /\ [key |-> "requires_labels", value |-> "true"] \in OptionLine
        /\ [key |-> "labels", value |-> l] \in OptionLine
    BY <2>1 DEF OptionLine
  <2>3. QED
    BY <2>2 DEF Entry
<1>2. \A i \in 1 .. 3 : i = 1 \/ i = 2 \/ i = 3
  OBVIOUS
<1>3. "true" \in Values
  BY DEF Values
<1>4. OptionShape(s)
  <2>1. /\ s[1].key = "model" /\ s[2].key = "requires_labels" /\ s[3].key = "labels"
        /\ s[1].value = m /\ s[2].value = "true" /\ s[3].value = l
    BY <1>1
  <2>2. \A i, j \in 1 .. 3 : s[i].key = s[j].key => i = j
    BY <1>2, <2>1
  <2>3. m \in Values
    BY DEF Values
  <2>4. \A i \in 1 .. 3 :
           /\ s[i].key = "model" => s[i].value \in Models
           /\ s[i].key # "exit" /\ s[i].value \in Values
    BY <1>2, <1>3, <2>1, <2>3
  <2>5. QED
    BY <1>1, <2>2, <2>4 DEF OptionShape
<1>5. OptionTrains(s)
  BY <1>1 DEF OptionTrains
<1>6. QED
  BY <1>4, <1>5

LEMMA TwoLines ==
    ASSUME NEW s, NEW m \in Models, NEW e \in OptionLine,
           s = << Entry("model", m), e >>,
           e.key # "model", e.key # "exit" => e.value \in Values,
           e.key # "exit" /\ m \in DOMAIN TrainedLabels =>
              /\ m \in {"yolov8", "yolov11"}
              /\ e.key = "labels" /\ e.value = TrainedLabels[m]
    PROVE  OptionShape(s) /\ OptionTrains(s)
<1>1. /\ s \in Seq(OptionLine) /\ Len(s) = 2
      /\ s[1] = [key |-> "model", value |-> m]
      /\ s[2] = e
  <2>1. m \in Values
    BY DEF Values
  <2>2. [key |-> "model", value |-> m] \in OptionLine
    BY <2>1 DEF OptionLine
  <2>3. QED
    BY <2>2 DEF Entry
<1>2. \A i \in 1 .. 2 : i = 1 \/ i = 2
  OBVIOUS
<1>3. OptionShape(s)
  <2>1. m \in Values
    BY DEF Values
  <2>2. /\ s[1].key = "model" /\ s[2].key = e.key
        /\ s[1].value = m /\ s[2].value = e.value
    BY <1>1
  <2>3. \A i, j \in 1 .. 2 : s[i].key = s[j].key => i = j
    BY <1>2, <2>2
  <2>4. \A i \in 1 .. 2 :
           /\ s[i].key = "model" => s[i].value \in Models
           /\ s[i].key = "exit" => i = 2
           /\ s[i].key # "exit" => s[i].value \in Values
    BY <1>2, <2>1, <2>2
  <2>5. QED
    BY <1>1, <2>3, <2>4 DEF OptionShape
<1>4. OptionTrains(s)
  BY <1>1 DEF OptionTrains
<1>5. QED
  BY <1>3, <1>4

LEMMA OptionsFacts == \A o \in Options : OptionShape(o) /\ OptionTrains(o)
<1>. DEFINE Labelled(m, l) ==
                << Entry("model", m), Entry("requires_labels", "true"), Entry("labels", l) >>
            Plain(m) == << Entry("model", m), Entry("requires_labels", "false") >>
            Unflagged(m) == << Entry("model", m), Entry("labels", "yolov5_labels") >>
            Custom(m) == << Entry("model", m), Entry("exit", "1") >>
<1>0. /\ {"false", "cityscapes_labels", "imagenet_labels", "coco_labels", "yolov5_labels"}
            \subseteq Values
      /\ {"mobilenet", "fastdepth", "deeplab", "efficientnet", "movenet", "yolov5", "yolov8",
          "yolov11"} \subseteq Models
  BY DEF Values, Models
<1>1. ASSUME NEW o \in Options
      PROVE  \/ o = Labelled("mobilenet", "coco_labels")
             \/ o = Labelled("deeplab", "cityscapes_labels")
             \/ o = Labelled("efficientnet", "imagenet_labels")
             \/ o = Labelled("yolov5", "yolov5_labels")
             \/ o = Plain("fastdepth") \/ o = Plain("movenet")
             \/ o = Unflagged("yolov8") \/ o = Unflagged("yolov11")
             \/ \E m \in TypedModels : o = Custom(m)
  BY Zenon DEF Options
<1>2. /\ OptionShape(Labelled("mobilenet", "coco_labels"))
      /\ OptionTrains(Labelled("mobilenet", "coco_labels"))
  BY <1>0, ThreeLines DEF TrainedLabels
<1>3. /\ OptionShape(Labelled("deeplab", "cityscapes_labels"))
      /\ OptionTrains(Labelled("deeplab", "cityscapes_labels"))
  BY <1>0, ThreeLines DEF TrainedLabels
<1>4. /\ OptionShape(Labelled("efficientnet", "imagenet_labels"))
      /\ OptionTrains(Labelled("efficientnet", "imagenet_labels"))
  BY <1>0, ThreeLines DEF TrainedLabels
<1>5. /\ OptionShape(Labelled("yolov5", "yolov5_labels"))
      /\ OptionTrains(Labelled("yolov5", "yolov5_labels"))
  BY <1>0, ThreeLines DEF TrainedLabels
<1>6. ASSUME NEW m \in {"fastdepth", "movenet"}
      PROVE  OptionShape(Plain(m)) /\ OptionTrains(Plain(m))
  <2>. DEFINE e == Entry("requires_labels", "false")
  <2>1. e \in OptionLine /\ e.key = "requires_labels" /\ e.value \in Values
    BY <1>0 DEF Entry, OptionLine
  <2>2. m \in Models /\ m \notin DOMAIN TrainedLabels
    BY <1>0 DEF TrainedLabels
  <2>3. Plain(m) = << Entry("model", m), e >>
    OBVIOUS
  <2>. HIDE DEF e
  <2>4. QED
    BY <2>1, <2>2, <2>3, TwoLines
<1>7. ASSUME NEW m \in {"yolov8", "yolov11"}
      PROVE  OptionShape(Unflagged(m)) /\ OptionTrains(Unflagged(m))
  <2>. DEFINE e == Entry("labels", "yolov5_labels")
  <2>1. e \in OptionLine /\ e.key = "labels" /\ e.value = "yolov5_labels" /\ e.value \in Values
    BY <1>0 DEF Entry, OptionLine
  <2>2. m \in Models /\ TrainedLabels[m] = "yolov5_labels"
    BY <1>0 DEF TrainedLabels
  <2>3. Unflagged(m) = << Entry("model", m), e >>
    OBVIOUS
  <2>. HIDE DEF e
  <2>4. QED
    BY <2>1, <2>2, <2>3, TwoLines
<1>8. ASSUME NEW m \in TypedModels
      PROVE  OptionShape(Custom(m)) /\ OptionTrains(Custom(m))
  <2>. DEFINE e == Entry("exit", "1")
  <2>1. e \in OptionLine /\ e.key = "exit"
    BY DEF Entry, OptionLine
  <2>2. m \in Models
    BY ConfigurationAssumption
  <2>3. Custom(m) = << Entry("model", m), e >>
    OBVIOUS
  <2>. HIDE DEF e
  <2>4. QED
    BY <2>1, <2>2, <2>3, TwoLines
<1>9. QED
  <2>. HIDE DEF Labelled, Plain, Unflagged, Custom
  <2>1. QED
    BY <1>1, <1>2, <1>3, <1>4, <1>5, <1>6, <1>7, <1>8

\* A choice that has been set to the end leaves a coherent file.
LEMMA ChoiceIsCoherent ==
    ASSUME NEW f, NEW o \in Options, o[Len(o)].key # "exit", KeysOf(f.entries) = Keys,
           \A j \in 1 .. Len(o) : IsSet(f.entries, o[j])
    PROVE  Coherent(f)
<1>. DEFINE m == ValueOf(f.entries, "model")
<1>1. OptionShape(o) /\ OptionTrains(o)
  BY OptionsFacts
<1>2. 1 \in 1 .. Len(o) /\ o[1].key = "model"
  BY <1>1 DEF OptionShape, OptionTrains
<1>3. \A j \in 1 .. Len(o) : o[j].key # "exit" => ValueOf(f.entries, o[j].key) = o[j].value
  BY DEF IsSet
<1>4. m = o[1].value
  BY <1>2, <1>3
<1>5. ASSUME m \in DOMAIN TrainedLabels
      PROVE  /\ ValueOf(f.entries, "labels") = TrainedLabels[m]
             /\ m \notin {"yolov8", "yolov11"} => RequiresLabels(f.entries)
  <2>. HIDE DEF m
  <2>1. PICK j \in 1 .. Len(o) : o[j].key = "labels" /\ o[j].value = TrainedLabels[m]
    BY <1>1, <1>4, <1>5 DEF OptionTrains
  <2>2. ValueOf(f.entries, "labels") = TrainedLabels[m]
    BY <1>3, <2>1
  <2>3. ASSUME m \notin {"yolov8", "yolov11"}
        PROVE  RequiresLabels(f.entries)
    <3>1. PICK i \in 1 .. Len(o) : o[i].key = "requires_labels" /\ o[i].value = "true"
      BY <1>1, <1>4, <1>5, <2>3 DEF OptionTrains
    <3>2. QED
      BY <1>3, <3>1 DEF RequiresLabels
  <2>4. QED
    BY <2>2, <2>3
<1>6. QED
  BY <1>5 DEF Coherent

\* The pipe is not part of it.
LEMMA PipeKeepsCoherent ==
    ASSUME NEW f, IsEntries(f.entries), KeysOf(f.entries) = Keys, Coherent(f), NEW p
    PROVE  Coherent(SetParam(f, "input_pipe", p))
<1>. DEFINE g == SetParam(f, "input_pipe", p)
<1>1. KeysOf(g.entries) = Keys
      /\ \A k \in Keys : k # "input_pipe" => ValueOf(g.entries, k) = ValueOf(f.entries, k)
  BY SetParamLines
<1>. HIDE DEF g
<1>2. /\ ValueOf(g.entries, "model") = ValueOf(f.entries, "model")
      /\ ValueOf(g.entries, "labels") = ValueOf(f.entries, "labels")
      /\ ValueOf(g.entries, "requires_labels") = ValueOf(f.entries, "requires_labels")
  BY <1>1 DEF Keys
<1>3. Coherent(g)
  BY <1>1, <1>2 DEF Coherent, RequiresLabels
<1>4. QED
  BY <1>3 DEF g

\* Nor does a file written anew lack coherence.
LEMMA FactoryIsCoherent ==
    ASSUME NEW f, f.entries = Factory
    PROVE  Coherent(f)
<1>1. /\ Factory[1].key = "model" /\ Factory[1].value = "mobilenet"
      /\ Factory[3].key = "requires_labels" /\ Factory[3].value = "true"
      /\ Factory[4].key = "labels" /\ Factory[4].value = "coco_labels"
  BY DEF Factory, Entry
<1>2. ASSUME NEW n \in 1 .. 5 PROVE ValueOf(Factory, Factory[n].key) = Factory[n].value
  <2>1. (CHOOSE i \in DOMAIN Factory : Factory[i].key = Factory[n].key) = n
    BY FactoryFacts
  <2>2. QED
    BY <2>1 DEF ValueOf
<1>3. /\ ValueOf(Factory, "model") = "mobilenet"
      /\ ValueOf(Factory, "requires_labels") = "true"
      /\ ValueOf(Factory, "labels") = "coco_labels"
  <2>1. 1 \in 1 .. 5 /\ 3 \in 1 .. 5 /\ 4 \in 1 .. 5
    OBVIOUS
  <2>2. QED
    BY <1>1, <1>2, <2>1
<1>4. QED
  BY <1>3 DEF Coherent, TrainedLabels, RequiresLabels
-----------------------------------------------------------------------------
(***************************************************************************)
(* The inductive invariant.                                                  *)
(***************************************************************************)
ServerPcs == {"stopped", "starting", "write", "build", "serving", "gave_up"}
WizardPcs == {"idle", "update", "wipe", "enable?", "model?", "set", "pipe?", "restart", "stop"}
Nexts == {"idle", "enable?", "restart", "stop"}
Todos == Seq([key : KeysOf(Factory) \cup {"exit"}, value : Values \cup {"1"}])
FileType == [entries : Seq(Line), dangling : BOOLEAN]
ServerType == [pc : ServerPcs, read : Seq(Line), tries : 0 .. BurstLimit]
WizardType == [pc : WizardPcs, todo : Todos, next : Nexts]

LEMMA InitEstablishes == ConfInit => ConfIInv
<1>. SUFFICES ASSUME ConfInit PROVE ConfIInv
  OBVIOUS
<1>. USE DEF ConfInit
<1>1. IsEntries(<<>>)
  BY DEF IsEntries
<1>2. ConfTypeOK
  <2>1. IsEntries(file.entries) /\ file \in FileType
    BY ConfigurationAssumption DEF FileType
  <2>2. 0 \in 0 .. BurstLimit /\ 0 \in 0 .. MaxRuns /\ 0 \in 0 .. MaxCrashes
    BY ConfigurationAssumption
  <2>3. shell \in [pc : {"none", "write"}, read : Seq(Line)] /\ server \in ServerType
    BY <2>2 DEF ServerType, ServerPcs
  <2>4. wizard \in WizardType
    BY DEF WizardType, WizardPcs, Todos, Nexts
  <2>5. QED
    BY <1>1, <2>1, <2>2, <2>3, <2>4
    DEF ConfTypeOK, FileType, ServerType, ServerPcs, WizardType, WizardPcs, Todos, Nexts
<1>3. InStep /\ ReadHasModel /\ ServesWhatStarts
  BY DEF InStep, ReadHasModel, ServesWhatStarts
<1>4. StaysComplete /\ NothingToWrite /\ Choosing
  BY DEF StaysComplete, NothingToWrite, Choosing, Undisturbed, Trusted
<1>5. QED
  BY <1>2, <1>3, <1>4 DEF ConfIInv

\* A write-back that loses nothing leaves a file that is there as it is, and
\* writes a missing one anew.
LEMMA WriteBackDoes ==
    ASSUME ConfIInv, NEW read, IsEntries(read), WriteBack(read)
    PROVE  /\ file' \in FileType /\ IsEntries(file'.entries) /\ lost' \in BOOLEAN
           /\ ~lost' => ~lost
           /\ ~lost' /\ Complete(origin) =>
                 /\ Complete(file') /\ file' # Missing
                 /\ file # Missing => file' = file
                 /\ file = Missing => Coherent(file')
<1>1. /\ file' = [entries |-> WithDefaults(read), dangling |-> FALSE]
      /\ lost' = (lost \/ file # [entries |-> read, dangling |-> FALSE])
  BY DEF WriteBack
<1>2. IsEntries(WithDefaults(read))
  BY WithDefaultsReads
<1>3. file' \in FileType /\ IsEntries(file'.entries) /\ lost' \in BOOLEAN /\ (~lost' => ~lost)
  <2>1. lost \in BOOLEAN
    BY DEF ConfIInv, ConfTypeOK
  <2>2. lost' \in BOOLEAN /\ (~lost' => ~lost)
    BY <1>1, <2>1
  <2>3. QED
    BY <1>1, <1>2, <2>2 DEF IsEntries, FileType
<1>4. ASSUME ~lost', Complete(origin)
      PROVE  /\ Complete(file') /\ file' # Missing
             /\ file # Missing => file' = file
             /\ file = Missing => Coherent(file')
  <2>1. file = [entries |-> read, dangling |-> FALSE]
    BY <1>1, <1>4, Zenon
  <2>2. Complete(file)
    BY <1>3, <1>4 DEF ConfIInv, StaysComplete
  <2>3. /\ Complete(file') /\ file' # Missing
        /\ file # Missing => WithDefaults(file.entries) = file.entries
        /\ file = Missing => WithDefaults(file.entries) = Factory
    BY <1>1, <2>1, <2>2, WriteBackCompletes
  <2>4. file # Missing => file' = file
    BY <1>1, <2>1, <2>3
  <2>5. file = Missing => file'.entries = Factory
    BY <1>1, <2>1, <2>3
  <2>6. QED
    BY <2>3, <2>4, <2>5, FactoryIsCoherent
<1>5. QED
  BY <1>3, <1>4

LEMMA FailedIsTyped ==
    ASSUME ConfTypeOK
    PROVE  /\ Failed(server) \in ServerType /\ IsEntries(Failed(server).read)
           /\ Failed(server).pc \in {"starting", "gave_up"}
<1>1. server \in ServerType /\ IsEntries(server.read)
  BY DEF ConfTypeOK, ServerType, ServerPcs
<1>2. IsEntries(<<>>) /\ <<>> \in Seq(Line)
  BY DEF IsEntries
<1>3. CASE server.tries < BurstLimit
  <2>1. server.tries + 1 \in 0 .. BurstLimit
    BY <1>1, <1>3, ConfigurationAssumption DEF ServerType
  <2>2. QED
    BY <1>2, <1>3, <2>1 DEF Failed, ServerType, ServerPcs
<1>4. CASE ~(server.tries < BurstLimit)
  BY <1>1, <1>4 DEF Failed, ServerType, ServerPcs
<1>5. QED
  BY <1>3, <1>4

\* What the server does without writing leaves all that is not its own.
LEMMA ServerKeeps ==
    ASSUME ConfIInv, UNCHANGED <<file, installed, shell, wizard, runs, origin, lost, choice>>,
           server' \in ServerType, IsEntries(server'.read), crashes' \in 0 .. MaxCrashes,
           server'.pc = "write" => server.pc = "write" \/ Modified(file.entries),
           ReadHasModel', ServesWhatStarts'
    PROVE  ConfIInv'
<1>1. ConfTypeOK'
  BY DEF ConfIInv, ConfTypeOK, ServerType, ServerPcs
<1>2. InStep' /\ StaysComplete' /\ Choosing'
  BY DEF ConfIInv, InStep, StaysComplete, Choosing, Undisturbed, Trusted, Remaining
<1>3. NothingToWrite'
  <2>1. SUFFICES ASSUME Complete(origin), origin # Missing
                 PROVE  server'.pc # "write" /\ ~lost /\ file # Missing /\ shell.pc # "write"
    BY DEF NothingToWrite
  <2>2. ~lost /\ file # Missing /\ shell.pc # "write" /\ server.pc # "write"
    BY <2>1 DEF ConfIInv, NothingToWrite
  <2>3. Complete(file) /\ IsEntries(file.entries)
    BY <2>1, <2>2 DEF ConfIInv, StaysComplete, ConfTypeOK
  <2>4. ~Modified(file.entries)
    BY <2>2, <2>3, WriteBackCompletes
  <2>5. QED
    BY <2>2, <2>4
<1>4. QED
  BY <1>1, <1>2, <1>3 DEF ConfIInv

LEMMA ReadConfigPreserves == ConfIInv /\ ReadConfig => ConfIInv'
<1>. SUFFICES ASSUME ConfIInv, ReadConfig PROVE ConfIInv'
  OBVIOUS
<1>1. /\ server \in ServerType /\ IsEntries(server.read) /\ server.pc = "starting"
      /\ file \in FileType /\ IsEntries(file.entries) /\ ConfTypeOK
      /\ UNCHANGED <<file, installed, shell, wizard, runs, crashes, origin, lost, choice>>
      /\ crashes \in 0 .. MaxCrashes
  BY DEF ReadConfig, ConfIInv, ConfTypeOK, ServerType, ServerPcs, FileType
<1>2. CASE file.dangling
  <2>1. server' = Failed(server)
    BY <1>2 DEF ReadConfig
  <2>2. server' \in ServerType /\ IsEntries(server'.read)
        /\ server'.pc \in {"starting", "gave_up"}
    BY <1>1, <2>1, FailedIsTyped
  <2>3. ReadHasModel' /\ ServesWhatStarts'
    BY <2>2 DEF ReadHasModel, ServesWhatStarts
  <2>4. QED
    BY <1>1, <2>2, <2>3, ServerKeeps
<1>3. CASE ~file.dangling
  <2>1. server' = [server EXCEPT !.read = file.entries,
                     !.pc = IF Modified(file.entries) THEN "write" ELSE "build"]
    BY <1>3 DEF ReadConfig
  <2>2. /\ server' \in ServerType /\ server'.read = file.entries
        /\ server'.pc = IF Modified(file.entries) THEN "write" ELSE "build"
    BY <1>1, <2>1 DEF ServerType, ServerPcs, FileType
  <2>3. ReadHasModel'
    <3>1. ~Modified(file.entries) => "model" \in KeysOf(file.entries)
      BY <1>1, WithDefaultsReads DEF Modified
    <3>2. QED
      BY <2>2, <3>1 DEF ReadHasModel
  <2>4. ServesWhatStarts'
    BY <2>2 DEF ServesWhatStarts
  <2>5. QED
    BY <1>1, <2>2, <2>3, <2>4, ServerKeeps
<1>4. QED
  BY <1>2, <1>3

LEMMA BuildHelperPreserves == ConfIInv /\ BuildHelper => ConfIInv'
<1>. SUFFICES ASSUME ConfIInv, BuildHelper PROVE ConfIInv'
  OBVIOUS
<1>1. /\ server \in ServerType /\ IsEntries(server.read) /\ server.pc = "build" /\ ConfTypeOK
      /\ UNCHANGED <<file, installed, shell, wizard, runs, crashes, origin, lost, choice>>
      /\ crashes \in 0 .. MaxCrashes /\ "model" \in KeysOf(server.read)
  BY DEF BuildHelper, ConfIInv, ConfTypeOK, ServerType, ServerPcs, ReadHasModel
<1>2. CASE Starts(ValueOf(server.read, "model"), LabelsInUse(server.read))
  <2>1. server' = [server EXCEPT !.pc = "serving"]
    BY <1>2 DEF BuildHelper
  <2>2. server' \in ServerType /\ server'.read = server.read /\ server'.pc = "serving"
    BY <1>1, <2>1 DEF ServerType, ServerPcs
  <2>3. ReadHasModel' /\ ServesWhatStarts'
    BY <1>1, <1>2, <2>2 DEF ReadHasModel, ServesWhatStarts, Starts
  <2>4. QED
    BY <1>1, <2>2, <2>3, ServerKeeps
<1>3. CASE ~Starts(ValueOf(server.read, "model"), LabelsInUse(server.read))
  <2>1. server' = Failed(server)
    BY <1>3 DEF BuildHelper
  <2>2. server' \in ServerType /\ IsEntries(server'.read)
        /\ server'.pc \in {"starting", "gave_up"}
    BY <1>1, <2>1, FailedIsTyped
  <2>3. ReadHasModel' /\ ServesWhatStarts'
    BY <2>2 DEF ReadHasModel, ServesWhatStarts
  <2>4. QED
    BY <1>1, <2>2, <2>3, ServerKeeps
<1>4. QED
  BY <1>2, <1>3

LEMMA ServerDiesPreserves == ConfIInv /\ ServerDies => ConfIInv'
<1>. SUFFICES ASSUME ConfIInv, ServerDies PROVE ConfIInv'
  OBVIOUS
<1>1. /\ UNCHANGED <<file, installed, shell, wizard, runs, origin, lost, choice>>
      /\ server' = Failed(server) /\ ConfTypeOK
  BY DEF ServerDies, ConfIInv
<1>2. crashes' \in 0 .. MaxCrashes
  BY ConfigurationAssumption DEF ServerDies, ConfIInv, ConfTypeOK
<1>3. server' \in ServerType /\ IsEntries(server'.read)
      /\ server'.pc \in {"starting", "gave_up"}
  BY <1>1, FailedIsTyped
<1>4. ReadHasModel' /\ ServesWhatStarts'
  BY <1>3 DEF ReadHasModel, ServesWhatStarts
<1>5. QED
  BY <1>1, <1>2, <1>3, <1>4, ServerKeeps

LEMMA ServerWritesPreserves == ConfIInv /\ ServerWrites => ConfIInv'
<1>. SUFFICES ASSUME ConfIInv, ServerWrites PROVE ConfIInv'
  OBVIOUS
<1>1. /\ server \in ServerType /\ IsEntries(server.read) /\ server.pc = "write"
      /\ UNCHANGED <<installed, shell, wizard, runs, crashes, origin, choice>>
      /\ WriteBack(server.read)
      /\ server' = [server EXCEPT !.pc = "build", !.read = WithDefaults(@)]
  BY DEF ServerWrites, ConfIInv, ConfTypeOK, ServerType, ServerPcs
<1>2. /\ file' \in FileType /\ IsEntries(file'.entries) /\ lost' \in BOOLEAN
      /\ ~lost' => ~lost
      /\ ~lost' /\ Complete(origin) =>
            /\ Complete(file') /\ file' # Missing
            /\ file # Missing => file' = file
            /\ file = Missing => Coherent(file')
  BY <1>1, WriteBackDoes
<1>3. IsEntries(WithDefaults(server.read)) /\ "model" \in KeysOf(WithDefaults(server.read))
  BY <1>1, WithDefaultsReads
<1>4. /\ server' \in ServerType /\ server'.pc = "build"
      /\ server'.read = WithDefaults(server.read)
  BY <1>1, <1>3 DEF ServerType, ServerPcs, IsEntries
<1>5. ConfTypeOK'
  BY <1>1, <1>2, <1>3, <1>4 DEF ConfIInv, ConfTypeOK, ServerType, ServerPcs, FileType
<1>6. InStep' /\ ReadHasModel' /\ ServesWhatStarts'
  BY <1>1, <1>3, <1>4 DEF ConfIInv, InStep, ReadHasModel, ServesWhatStarts, Remaining
<1>7. StaysComplete'
  BY <1>1, <1>2 DEF StaysComplete
<1>8. ~(Complete(origin) /\ origin # Missing)
  BY <1>1 DEF ConfIInv, NothingToWrite
<1>9. NothingToWrite'
  BY <1>1, <1>8 DEF NothingToWrite
<1>10. Choosing'
  <2>1. SUFFICES ASSUME Undisturbed' PROVE Choosing'
    BY DEF Choosing
  <2>2. Undisturbed /\ ~lost' /\ Complete(origin)
    BY <1>1, <1>2, <2>1 DEF Undisturbed
  <2>3. file' # Missing /\ (file # Missing => file' = file) /\ (file = Missing => Coherent(file'))
    BY <1>2, <2>2
  <2>4. /\ Trusted' => Trusted
        /\ Trusted => file = Missing \/ Coherent(file)
        /\ wizard.pc = "set" => file # Missing
        /\ wizard.pc = "set" =>
              \E o \in Options : \E k \in DOMAIN o :
                 /\ Remaining(o, k)
                 /\ \A j \in 1 .. k - 1 : IsSet(file.entries, o[j])
    BY <1>1, <2>2 DEF ConfIInv, Choosing, Trusted
  <2>5. Trusted' => Coherent(file')
    BY <2>3, <2>4
  <2>6. QED
    BY <1>1, <2>3, <2>4, <2>5 DEF Choosing, Remaining
<1>11. QED
  BY <1>5, <1>6, <1>7, <1>9, <1>10 DEF ConfIInv

\* The same for the wizard's steps that do not touch the file.
LEMMA WizardKeeps ==
    ASSUME ConfIInv, UNCHANGED <<file, installed, crashes, origin, lost, choice>>,
           wizard' \in WizardType, runs' \in 0 .. MaxRuns,
           server' \in ServerType, IsEntries(server'.read),
           \/ server' = server
           \/ server'.pc \in {"starting", "stopped"},
           shell' \in [pc : {"none", "write"}, read : Seq(Line)], IsEntries(shell'.read),
           shell'.pc = "write" =>
              wizard'.pc = "update" /\ (shell.pc = "write" \/ Modified(file.entries)),
           wizard'.pc # "set",
           Undisturbed /\ wizard'.pc \in {"enable?", "model?", "pipe?"} => file # Missing
    PROVE  ConfIInv'
<1>1. ConfTypeOK'
  BY DEF ConfIInv, ConfTypeOK, ServerType, ServerPcs, WizardType, WizardPcs, Nexts, Todos
<1>2. InStep' /\ ReadHasModel' /\ ServesWhatStarts' /\ StaysComplete'
  BY DEF ConfIInv, InStep, ReadHasModel, ServesWhatStarts, StaysComplete, Starts
<1>3. NothingToWrite'
  <2>1. SUFFICES ASSUME Complete(origin), origin # Missing
                 PROVE  server'.pc # "write" /\ ~lost /\ file # Missing /\ shell'.pc # "write"
    BY DEF NothingToWrite
  <2>2. ~lost /\ file # Missing /\ shell.pc # "write" /\ server.pc # "write"
    BY <2>1 DEF ConfIInv, NothingToWrite
  <2>3. Complete(file) /\ IsEntries(file.entries)
    BY <2>1, <2>2 DEF ConfIInv, StaysComplete, ConfTypeOK
  <2>4. ~Modified(file.entries)
    BY <2>2, <2>3, WriteBackCompletes
  <2>5. QED
    BY <2>2, <2>4
<1>4. Choosing'
  BY DEF ConfIInv, Choosing, Undisturbed, Trusted
<1>5. QED
  BY <1>1, <1>2, <1>3, <1>4 DEF ConfIInv

\* What the steps of the wizard start from.
LEMMA WizardTyped ==
    ASSUME ConfIInv
    PROVE  /\ ConfTypeOK
           /\ wizard \in WizardType /\ server \in ServerType /\ IsEntries(server.read)
           /\ file \in FileType /\ IsEntries(file.entries)
           /\ shell \in [pc : {"none", "write"}, read : Seq(Line)] /\ IsEntries(shell.read)
           /\ shell.pc = "write" => wizard.pc = "update"
           /\ runs \in 0 .. MaxRuns
BY DEF ConfIInv, ConfTypeOK, InStep, ServerType, ServerPcs, WizardType, WizardPcs, Nexts, Todos,
       FileType

LEMMA GotoIsTyped ==
    ASSUME wizard \in WizardType, NEW pc \in WizardPcs, Goto(pc)
    PROVE  wizard' \in WizardType /\ wizard'.pc = pc
BY DEF Goto, WizardType

LEMMA BeginPreserves == ConfIInv /\ Begin => ConfIInv'
<1>. SUFFICES ASSUME ConfIInv, Begin PROVE ConfIInv'
  OBVIOUS
<1>1. /\ wizard.pc = "idle"
      /\ UNCHANGED <<file, installed, shell, server, crashes, origin, lost, choice>>
  BY DEF Begin
<1>2. runs' \in 0 .. MaxRuns
  BY WizardTyped, ConfigurationAssumption DEF Begin
<1>3. PICK pc \in {"update", "wipe", "restart", "stop"}, next \in Nexts :
         wizard' = [pc |-> pc, todo |-> <<>>, next |-> next]
  BY DEF Begin, Nexts
<1>4. <<>> \in Todos
  BY DEF Todos
<1>5. wizard' \in WizardType /\ wizard'.pc \in {"update", "wipe", "restart", "stop"}
  BY <1>3, <1>4 DEF WizardType, WizardPcs
<1>6. QED
  BY <1>1, <1>2, <1>5, WizardTyped, WizardKeeps

LEMMA EnablePromptPreserves == ConfIInv /\ EnablePrompt => ConfIInv'
<1>. SUFFICES ASSUME ConfIInv, EnablePrompt PROVE ConfIInv'
  OBVIOUS
<1>1. /\ wizard.pc = "enable?"
      /\ UNCHANGED <<file, installed, shell, server, runs, crashes, origin, lost, choice>>
  BY DEF EnablePrompt
<1>2. PICK answer \in {"model?", "stop"} : Goto(answer)
  BY DEF EnablePrompt
<1>3. wizard' \in WizardType /\ wizard'.pc \in {"model?", "stop"}
  BY <1>2, WizardTyped, GotoIsTyped DEF WizardPcs
<1>4. Undisturbed => file # Missing
  BY <1>1 DEF ConfIInv, Choosing
<1>5. QED
  BY <1>1, <1>3, <1>4, WizardTyped, WizardKeeps

LEMMA RestartServicePreserves == ConfIInv /\ RestartService => ConfIInv'
<1>. SUFFICES ASSUME ConfIInv, RestartService PROVE ConfIInv'
  OBVIOUS
<1>1. /\ wizard.pc = "restart"
      /\ UNCHANGED <<file, installed, shell, runs, crashes, origin, lost, choice>>
      /\ server' = [pc |-> "starting", read |-> <<>>, tries |-> 0]
  BY DEF RestartService
<1>2. wizard' \in WizardType /\ wizard'.pc = "idle"
  BY WizardTyped, GotoIsTyped DEF WizardPcs, RestartService
<1>3. IsEntries(<<>>) /\ <<>> \in Seq(Line) /\ 0 \in 0 .. BurstLimit
  BY ConfigurationAssumption DEF IsEntries
<1>4. server' \in ServerType /\ IsEntries(server'.read) /\ server'.pc = "starting"
  BY <1>1, <1>3 DEF ServerType, ServerPcs
<1>5. QED
  BY <1>1, <1>2, <1>4, WizardTyped, WizardKeeps

LEMMA StopServicePreserves == ConfIInv /\ StopService => ConfIInv'
<1>. SUFFICES ASSUME ConfIInv, StopService PROVE ConfIInv'
  OBVIOUS
<1>1. /\ wizard.pc = "stop"
      /\ UNCHANGED <<file, installed, shell, runs, crashes, origin, lost, choice>>
      /\ server' = [server EXCEPT !.pc = "stopped"]
  BY DEF StopService
<1>2. wizard' \in WizardType /\ wizard'.pc = "idle"
  BY WizardTyped, GotoIsTyped DEF WizardPcs, StopService
<1>3. server' \in ServerType /\ IsEntries(server'.read) /\ server'.pc = "stopped"
  BY <1>1, WizardTyped DEF ServerType, ServerPcs
<1>4. QED
  BY <1>1, <1>2, <1>3, WizardTyped, WizardKeeps

LEMMA InterruptPreserves == ConfIInv /\ Interrupt => ConfIInv'
<1>. SUFFICES ASSUME ConfIInv, Interrupt PROVE ConfIInv'
  OBVIOUS
<1>1. /\ wizard' = [pc |-> "idle", todo |-> <<>>, next |-> "idle"]
      /\ shell' = [pc |-> "none", read |-> <<>>]
      /\ UNCHANGED <<file, installed, server, runs, crashes, origin, lost, choice>>
  BY DEF Interrupt
<1>2. <<>> \in Todos /\ <<>> \in Seq(Line) /\ IsEntries(<<>>)
  BY DEF Todos, IsEntries
<1>3. wizard' \in WizardType /\ wizard'.pc = "idle"
  BY <1>1, <1>2 DEF WizardType, WizardPcs, Nexts
<1>4. /\ shell' \in [pc : {"none", "write"}, read : Seq(Line)]
      /\ IsEntries(shell'.read) /\ shell'.pc = "none"
  BY <1>1, <1>2
<1>5. QED
  BY <1>1, <1>3, <1>4, WizardTyped, WizardKeeps

LEMMA ShellReadsPreserves == ConfIInv /\ ShellReads => ConfIInv'
<1>. SUFFICES ASSUME ConfIInv, ShellReads PROVE ConfIInv'
  OBVIOUS
<1>1. /\ wizard.pc = "update" /\ shell.pc = "none"
      /\ UNCHANGED <<file, installed, server, runs, crashes, origin, lost, choice>>
  BY DEF ShellReads
<1>2. CASE ~file.dangling /\ Modified(file.entries)
  <2>1. shell' = [pc |-> "write", read |-> file.entries] /\ UNCHANGED wizard
    BY <1>2 DEF ShellReads
  <2>2. shell' \in [pc : {"none", "write"}, read : Seq(Line)] /\ IsEntries(shell'.read)
    BY <2>1, WizardTyped DEF IsEntries
  <2>3. QED
    BY <1>1, <1>2, <2>1, <2>2, WizardTyped, WizardKeeps
<1>3. CASE ~(~file.dangling /\ Modified(file.entries))
  <2>1. Goto(wizard.next) /\ UNCHANGED shell
    BY <1>3 DEF ShellReads
  <2>2. wizard.next \in Nexts
    BY WizardTyped DEF WizardType
  <2>3. wizard' \in WizardType /\ wizard'.pc = wizard.next
    BY <2>1, <2>2, WizardTyped, GotoIsTyped DEF Nexts, WizardPcs
  <2>4. Undisturbed => file # Missing
    <3>1. Missing.entries = <<>> /\ ~Missing.dangling /\ Factory # <<>>
      BY DEF Missing, Factory
    <3>2. QED
      BY <1>3, <3>1, WithDefaultsOfNothing DEF Modified
  <2>5. QED
    BY <1>1, <2>1, <2>2, <2>3, <2>4, WizardTyped, WizardKeeps DEF Nexts
<1>4. QED
  BY <1>2, <1>3

LEMMA ShellWritesPreserves == ConfIInv /\ ShellWrites => ConfIInv'
<1>. SUFFICES ASSUME ConfIInv, ShellWrites PROVE ConfIInv'
  OBVIOUS
<1>1. /\ shell.pc = "write" /\ wizard.pc = "update" /\ IsEntries(shell.read)
      /\ WriteBack(shell.read)
      /\ shell' = [pc |-> "none", read |-> <<>>]
      /\ Goto(wizard.next)
      /\ UNCHANGED <<installed, server, runs, crashes, origin, choice>>
  BY WizardTyped DEF ShellWrites
<1>2. /\ file' \in FileType /\ IsEntries(file'.entries) /\ lost' \in BOOLEAN
      /\ ~lost' => ~lost
      /\ ~lost' /\ Complete(origin) =>
            /\ Complete(file') /\ file' # Missing
            /\ file # Missing => file' = file
            /\ file = Missing => Coherent(file')
  BY <1>1, WriteBackDoes
<1>3. wizard.next \in Nexts /\ wizard' \in WizardType /\ wizard'.pc = wizard.next
  BY <1>1, WizardTyped, GotoIsTyped DEF Nexts, WizardType, WizardPcs
<1>4. IsEntries(<<>>) /\ <<>> \in Seq(Line)
  BY DEF IsEntries
<1>5. ConfTypeOK'
  BY <1>1, <1>2, <1>3, <1>4, WizardTyped
  DEF ConfTypeOK, ServerType, ServerPcs, WizardType, WizardPcs, Nexts, Todos, FileType
<1>6. InStep'
  BY <1>1, <1>3 DEF InStep, Nexts
<1>7. ReadHasModel' /\ ServesWhatStarts'
  BY <1>1 DEF ConfIInv, ReadHasModel, ServesWhatStarts, Starts
<1>8. StaysComplete'
  BY <1>1, <1>2 DEF StaysComplete
<1>9. ~(Complete(origin) /\ origin # Missing)
  BY <1>1 DEF ConfIInv, NothingToWrite
<1>10. NothingToWrite'
  BY <1>1, <1>9 DEF NothingToWrite
<1>11. Choosing'
  <2>1. SUFFICES ASSUME Undisturbed' PROVE Choosing'
    BY DEF Choosing
  <2>2. Undisturbed /\ ~lost' /\ Complete(origin)
    BY <1>1, <1>2, <2>1 DEF Undisturbed
  <2>3. file' # Missing /\ (file # Missing => file' = file) /\ (file = Missing => Coherent(file'))
    BY <1>2, <2>2
  <2>4. Trusted' => file = Missing \/ Coherent(file)
    BY <1>1, <2>2 DEF ConfIInv, Choosing, Trusted
  <2>5. (Trusted' => Coherent(file')) /\ wizard'.pc # "set"
    BY <1>3, <2>3, <2>4 DEF Nexts
  <2>6. QED
    BY <2>3, <2>5 DEF Choosing
<1>12. QED
  BY <1>5, <1>6, <1>7, <1>8, <1>10, <1>11 DEF ConfIInv

LEMMA WipeFilePreserves == ConfIInv /\ WipeFile => ConfIInv'
<1>. SUFFICES ASSUME ConfIInv, WipeFile PROVE ConfIInv'
  OBVIOUS
<1>1. /\ wizard.pc = "wipe" /\ file' = Missing /\ origin' = Missing /\ choice' = "none"
      /\ UNCHANGED <<installed, shell, server, runs, crashes, lost>>
  BY DEF WipeFile
<1>2. wizard' \in WizardType /\ wizard'.pc = "update"
  BY WizardTyped, GotoIsTyped DEF WipeFile, WizardPcs
<1>3. file' \in FileType /\ IsEntries(file'.entries)
  BY <1>1 DEF Missing, FileType, IsEntries
<1>4. ConfTypeOK'
  BY <1>1, <1>2, <1>3, WizardTyped
  DEF ConfTypeOK, ServerType, ServerPcs, WizardType, WizardPcs, Nexts, Todos, FileType
<1>5. InStep' /\ ReadHasModel' /\ ServesWhatStarts'
  BY <1>1, <1>2 DEF ConfIInv, InStep, ReadHasModel, ServesWhatStarts, Starts
<1>6. StaysComplete' /\ NothingToWrite' /\ Choosing'
  BY <1>1, <1>2 DEF StaysComplete, NothingToWrite, Choosing, Complete
<1>7. QED
  BY <1>4, <1>5, <1>6 DEF ConfIInv

\* The keys still to set: the next one, and those after it.
LEMMA RemainingFacts ==
    ASSUME NEW o \in Options, NEW k \in DOMAIN o, Remaining(o, k)
    PROVE  /\ OptionShape(o)
           /\ k \in 1 .. Len(o) /\ Len(o) \in Nat
           /\ DOMAIN o = 1 .. Len(o)
           /\ Head(wizard.todo) = o[k]
           /\ Len(wizard.todo) = Len(o) - k + 1
           /\ Tail(wizard.todo) = SubSeq(o, k + 1, Len(o))
           /\ wizard.todo # <<>> /\ Tail(wizard.todo) \in Seq(OptionLine)
           /\ o[k] \in OptionLine
<1>1. OptionShape(o)
  BY OptionsFacts
<1>2. wizard.todo = SubSeq(o, k, Len(o)) /\ k \in DOMAIN o
  BY DEF Remaining
<1>3. o \in Seq(OptionLine)
  BY <1>1 DEF OptionShape
<1>4. k \in 1 .. Len(o) /\ Len(o) \in Nat /\ DOMAIN o = 1 .. Len(o) /\ o[k] \in OptionLine
  BY <1>2, <1>3
<1>5. wizard.todo \in Seq(OptionLine) /\ Len(wizard.todo) = Len(o) - k + 1
  BY <1>2, <1>3, <1>4
<1>6. Head(wizard.todo) = o[k] /\ Tail(wizard.todo) = SubSeq(o, k + 1, Len(o))
  <2>1. Len(o) \in k .. Len(o)
    BY <1>4
  <2>2. QED
    BY <1>2, <1>3, <1>4, <2>1, HeadTailOfSubSeq
<1>7. wizard.todo # <<>> /\ Tail(wizard.todo) \in Seq(OptionLine)
  BY <1>4, <1>5
<1>8. QED
  BY <1>1, <1>4, <1>5, <1>6, <1>7

LEMMA OptionLinesAreTodos ==
    ASSUME NEW s \in Seq(OptionLine)
    PROVE  s \in Todos
<1>1. OptionLine \subseteq [key : KeysOf(Factory) \cup {"exit"}, value : Values \cup {"1"}]
  BY FactoryFacts DEF OptionLine, Keys
<1>2. QED
  BY <1>1, SeqMonotonic DEF Todos

\* With one more key set, the choice is set so far; "exit" is none.
LEMMA OneMoreIsSet ==
    ASSUME NEW f, IsEntries(f.entries), KeysOf(f.entries) = Keys,
           NEW s, OptionShape(s), NEW i \in 1 .. Len(s),
           \A j \in 1 .. i - 1 : IsSet(f.entries, s[j]),
           NEW g, g = IF s[i].key = "exit" THEN f ELSE SetParam(f, s[i].key, s[i].value)
    PROVE  KeysOf(g.entries) = Keys /\ \A j \in 1 .. i : IsSet(g.entries, s[j])
<1>1. /\ \A j \in 1 .. Len(s) : s[j] \in OptionLine
      /\ \A j \in 1 .. Len(s) : s[i].key = s[j].key => j = i
      /\ Len(s) \in Nat
  BY DEF OptionShape
<1>2. CASE s[i].key = "exit"
  <2>1. g = f /\ IsSet(f.entries, s[i])
    BY <1>2 DEF IsSet
  <2>2. \A j \in 1 .. i : j = i \/ j \in 1 .. i - 1
    OBVIOUS
  <2>3. QED
    BY <2>1, <2>2
<1>3. CASE s[i].key # "exit"
  <2>1. /\ KeysOf(g.entries) = Keys
        /\ \A q \in Keys : ValueOf(g.entries, q)
                             = IF q = s[i].key THEN s[i].value ELSE ValueOf(f.entries, q)
    BY <1>3, SetParamLines
  <2>2. ASSUME NEW j \in 1 .. i, s[j].key # "exit"
        PROVE  ValueOf(g.entries, s[j].key) = s[j].value
    <3>1. j \in 1 .. Len(s) /\ (j # i => j \in 1 .. i - 1)
      BY <1>1
    <3>2. s[j].key \in Keys
      BY <1>1, <2>2, <3>1 DEF OptionLine, Keys
    <3>3. CASE j = i
      BY <2>1, <3>2, <3>3
    <3>4. CASE j # i
      <4>1. s[j].key # s[i].key
        BY <1>1, <3>1, <3>4
      <4>2. ValueOf(f.entries, s[j].key) = s[j].value
        BY <2>2, <3>1, <3>4 DEF IsSet
      <4>3. QED
        BY <2>1, <3>2, <4>1, <4>2
    <3>5. QED
      BY <3>3, <3>4
  <2>3. QED
    BY <2>1, <2>2 DEF IsSet
<1>4. QED
  BY <1>2, <1>3

LEMMA ChooseModelPreserves == ConfIInv /\ ChooseModel => ConfIInv'
<1>. SUFFICES ASSUME ConfIInv, ChooseModel PROVE ConfIInv'
  OBVIOUS
<1>1. /\ wizard.pc = "model?"
      /\ UNCHANGED <<file, installed, shell, server, runs, crashes, origin, lost, choice>>
  BY DEF ChooseModel
<1>2. CASE Goto("idle")
  <2>1. wizard' \in WizardType /\ wizard'.pc = "idle"
    BY <1>2, WizardTyped, GotoIsTyped DEF WizardPcs
  <2>2. QED
    BY <1>1, <2>1, WizardTyped, WizardKeeps
<1>3. ASSUME NEW o \in Options,
             wizard' = [wizard EXCEPT !.pc = "set", !.todo = o]
      PROVE  ConfIInv'
  <2>1. OptionShape(o)
    BY OptionsFacts
  <2>2. o \in Seq(OptionLine) /\ Len(o) \in {2, 3}
    BY <2>1 DEF OptionShape
  <2>3. 1 \in DOMAIN o /\ SubSeq(o, 1, Len(o)) = o
    BY <2>2
  <2>4. wizard' \in WizardType /\ wizard'.pc = "set" /\ wizard'.todo = o
    BY <1>3, <2>2, WizardTyped, OptionLinesAreTodos DEF WizardType, WizardPcs
  <2>5. Remaining(o, 1)'
    BY <2>3, <2>4 DEF Remaining
  <2>6. ConfTypeOK'
    BY <1>1, <2>4, WizardTyped
    DEF ConfTypeOK, ServerType, ServerPcs, WizardType, WizardPcs, Nexts, Todos, FileType
  <2>7. InStep'
    BY <1>1, <2>3, <2>5, WizardTyped DEF InStep
  <2>8. ReadHasModel' /\ ServesWhatStarts' /\ StaysComplete' /\ NothingToWrite'
    BY <1>1 DEF ConfIInv, ReadHasModel, ServesWhatStarts, Starts, StaysComplete, NothingToWrite
  <2>9. Choosing'
    <3>1. SUFFICES ASSUME Undisturbed
                   PROVE  /\ file # Missing
                          /\ Trusted => Coherent(file)
                          /\ \E p \in Options : \E k \in DOMAIN p :
                                /\ Remaining(p, k)'
                                /\ \A j \in 1 .. k - 1 : IsSet(file.entries, p[j])
      BY <1>1, <2>4 DEF Choosing, Undisturbed, Trusted, Remaining
    <3>2. file # Missing /\ (Trusted => Coherent(file))
      BY <1>1, <3>1 DEF ConfIInv, Choosing
    <3>3. \A j \in 1 .. 1 - 1 : IsSet(file.entries, o[j])
      OBVIOUS
    <3>4. QED
      BY <2>3, <2>5, <3>2, <3>3
  <2>10. QED
    BY <2>6, <2>7, <2>8, <2>9 DEF ConfIInv
<1>4. QED
  BY <1>2, <1>3 DEF ChooseModel

\* sed does to a file what the invariant asks for, but for how far the choice is.
LEMMA SetParamKeeps ==
    ASSUME ConfIInv, NEW key \in Keys \ {"output_pipe_prefix"}, NEW value \in Values,
           key = "model" => value \in Models, file' = SetParam(file, key, value),
           UNCHANGED <<installed, shell, server, runs, crashes, origin, lost>>,
           choice' \in {"none", "torn", "whole"},
           wizard' \in WizardType, wizard.pc \in {"set", "pipe?"}
    PROVE  /\ ConfTypeOK' /\ ReadHasModel' /\ ServesWhatStarts'
           /\ StaysComplete' /\ NothingToWrite'
<1>1. file' \in FileType /\ IsEntries(file'.entries)
  BY WizardTyped, SetParamReads DEF FileType
<1>2. ConfTypeOK'
  BY <1>1, WizardTyped
  DEF ConfTypeOK, ServerType, ServerPcs, WizardType, WizardPcs, Nexts, Todos, FileType
<1>3. ReadHasModel' /\ ServesWhatStarts'
  BY DEF ConfIInv, ReadHasModel, ServesWhatStarts, Starts
<1>4. Complete(file) => /\ Complete(file')
                        /\ file # Missing => file' # Missing
  BY WizardTyped, SetParamMissing, SetParamCompletes
<1>5. StaysComplete' /\ NothingToWrite'
  BY <1>4 DEF ConfIInv, StaysComplete, NothingToWrite
<1>6. QED
  BY <1>2, <1>3, <1>5

LEMMA SetNextParamPreserves == ConfIInv /\ SetNextParam => ConfIInv'
<1>. SUFFICES ASSUME ConfIInv, SetNextParam PROVE ConfIInv'
  OBVIOUS
<1>. DEFINE e == Head(wizard.todo)
<1>1. /\ wizard.pc = "set"
      /\ file' = IF e.key = "exit" THEN file ELSE SetParam(file, e.key, e.value)
      /\ wizard' = [wizard EXCEPT !.todo = Tail(wizard.todo),
                      !.pc = IF e.key = "exit" THEN "idle"
                             ELSE IF Len(wizard.todo) = 1 THEN "pipe?" ELSE "set"]
      /\ choice' = IF e.key # "exit" /\ Len(wizard.todo) = 1 THEN "whole" ELSE "torn"
      /\ UNCHANGED <<installed, shell, server, runs, crashes, origin, lost>>
  BY Zenon DEF SetNextParam
<1>. HIDE DEF e
<1>2. /\ wizard'.todo = Tail(wizard.todo)
      /\ wizard'.pc = IF e.key = "exit" THEN "idle"
                      ELSE IF Len(wizard.todo) = 1 THEN "pipe?" ELSE "set"
  BY <1>1, WizardTyped DEF WizardType
<1>3. PICK o \in Options : \E k \in DOMAIN o : Remaining(o, k)
  BY <1>1 DEF ConfIInv, InStep
<1>4. PICK k \in DOMAIN o : Remaining(o, k)
  BY <1>3
<1>5. /\ e.key = "exit" \/ (e.value \in Values /\ e.key \in Keys \ {"output_pipe_prefix"})
      /\ e.key = "model" => e.value \in Models
  <2>1. OptionShape(o) /\ e = o[k] /\ k \in 1 .. Len(o)
        /\ o[k] \in OptionLine
    BY <1>4, RemainingFacts DEF e
  <2>2. e \in OptionLine /\ (e.key # "exit" => e.value \in Values)
        /\ (e.key = "model" => e.value \in Models)
    BY <2>1 DEF OptionShape
  <2>3. QED
    BY <2>2 DEF OptionLine, Keys
<1>6. wizard' \in WizardType
  <2>1. Tail(wizard.todo) \in Todos
    BY <1>4, RemainingFacts, OptionLinesAreTodos
  <2>2. QED
    BY <1>1, <2>1, WizardTyped DEF WizardType, WizardPcs
<1>7. ConfTypeOK' /\ ReadHasModel' /\ ServesWhatStarts' /\ StaysComplete' /\ NothingToWrite'
  <2>1. CASE e.key = "exit"
    <3>1. file' = file
      BY <1>1, <2>1
    <3>2. QED
      BY <1>1, <1>6, <3>1, WizardTyped
      DEF ConfIInv, ConfTypeOK, ReadHasModel, ServesWhatStarts, Starts, StaysComplete,
          NothingToWrite, ServerType, ServerPcs, WizardType, WizardPcs, Nexts, Todos, FileType
  <2>2. CASE e.key # "exit"
    BY <1>1, <1>5, <1>6, <2>2, SetParamKeeps
  <2>3. QED
    BY <2>1, <2>2
\* The key after number k of a choice is the next one to set.
<1>8. ASSUME NEW p \in Options, NEW i \in DOMAIN p, Remaining(p, i)
      PROVE  /\ OptionShape(p) /\ e = p[i] /\ i \in 1 .. Len(p)
             /\ wizard'.pc = "set" => i + 1 \in DOMAIN p /\ Remaining(p, i + 1)'
             /\ wizard'.pc # "set" => i = Len(p)
             /\ choice' = "whole" => i = Len(p) /\ p[Len(p)].key # "exit"
  <2>1. /\ OptionShape(p) /\ e = p[i] /\ i \in 1 .. Len(p)
        /\ DOMAIN p = 1 .. Len(p) /\ Len(p) \in Nat
        /\ Len(wizard.todo) = Len(p) - i + 1
        /\ Tail(wizard.todo) = SubSeq(p, i + 1, Len(p))
    BY <1>8, RemainingFacts DEF e
  <2>2. e.key = "exit" => i = Len(p)
    BY <2>1 DEF OptionShape
  <2>3. wizard'.pc = "set" => i # Len(p)
    <3>1. i = Len(p) => Len(wizard.todo) = 1
      BY <2>1
    <3>2. wizard'.pc = "set" => Len(wizard.todo) # 1
      BY <1>2
    <3>3. QED
      BY <3>1, <3>2
  <2>4. wizard'.pc # "set" => i = Len(p)
    BY <1>2, <2>1, <2>2
  <2>5. i # Len(p) => i + 1 \in DOMAIN p
    BY <2>1
  <2>6. Remaining(p, i + 1)'
    BY <1>2, <2>1 DEF Remaining
  <2>7. choice' = "whole" => i = Len(p) /\ p[Len(p)].key # "exit"
    <3>1. Len(wizard.todo) = 1 => i = Len(p)
      BY <2>1
    <3>2. choice' = "whole" => Len(wizard.todo) = 1 /\ e.key # "exit"
      BY <1>1
    <3>3. QED
      BY <2>1, <3>1, <3>2
  <2>8. QED
    BY <2>1, <2>3, <2>4, <2>5, <2>6, <2>7
<1>9. InStep'
  <2>1. shell'.pc # "write"
    BY <1>1, WizardTyped
  <2>2. QED
    BY <1>4, <1>8, <2>1 DEF InStep
<1>10. Choosing'
  <2>1. SUFFICES ASSUME Undisturbed PROVE Choosing'
    BY <1>1 DEF Choosing, Undisturbed
  <2>2. PICK p \in Options : \E i \in DOMAIN p :
                 /\ Remaining(p, i)
                 /\ \A j \in 1 .. i - 1 : IsSet(file.entries, p[j])
    BY <1>1, <2>1 DEF ConfIInv, Choosing
  <2>3. PICK i \in DOMAIN p :
                 /\ Remaining(p, i)
                 /\ \A j \in 1 .. i - 1 : IsSet(file.entries, p[j])
    BY <2>2
  <2>4. file # Missing /\ Complete(file) /\ IsEntries(file.entries)
    BY <1>1, <2>1, WizardTyped DEF ConfIInv, Choosing, StaysComplete, Undisturbed
  <2>5. KeysOf(file.entries) = Keys
    BY <2>4, FactoryFacts DEF Complete
  <2>6. OptionShape(p) /\ e = p[i] /\ i \in 1 .. Len(p)
    BY <1>8, <2>3
  <2>7. /\ KeysOf(file'.entries) = Keys
        /\ \A j \in 1 .. i : IsSet(file'.entries, p[j])
    <3>. DEFINE s == p
    <3>1. file' = IF s[i].key = "exit" THEN file ELSE SetParam(file, s[i].key, s[i].value)
      BY <1>1, <2>6
    <3>2. OptionShape(s) /\ i \in 1 .. Len(s)
          /\ \A j \in 1 .. i - 1 : IsSet(file.entries, s[j])
      BY <2>3, <2>6
    <3>. HIDE DEF s
    <3>3. KeysOf(file'.entries) = Keys /\ \A j \in 1 .. i : IsSet(file'.entries, s[j])
      BY <2>4, <2>5, <3>1, <3>2, OneMoreIsSet
    <3>4. QED
      BY <3>3 DEF s
  <2>8. file' # Missing
    BY <2>7 DEF KeysOf, Keys, Missing
  \* Only the last key of a choice makes it one to be trusted.
  <2>9. Trusted' => Coherent(file')
    <3>1. SUFFICES ASSUME choice' = "whole" PROVE Coherent(file')
      BY <1>1 DEF Trusted
    <3>2. i = Len(p) /\ p[Len(p)].key # "exit"
      BY <1>8, <2>3, <3>1
    <3>3. QED
      BY <2>7, <3>2, ChoiceIsCoherent
  <2>10. CASE wizard'.pc = "set"
    <3>1. i + 1 \in DOMAIN p /\ Remaining(p, i + 1)' /\ (i + 1) - 1 = i
      BY <1>8, <2>3, <2>6, <2>10
    <3>2. QED
      BY <2>7, <2>8, <2>9, <2>10, <3>1 DEF Choosing, Remaining
  <2>11. CASE wizard'.pc # "set"
    BY <2>8, <2>9, <2>11 DEF Choosing
  <2>12. QED
    BY <2>10, <2>11
<1>11. QED
  BY <1>7, <1>9, <1>10 DEF ConfIInv

LEMMA ChoosePipePreserves == ConfIInv /\ ChoosePipe => ConfIInv'
<1>. SUFFICES ASSUME ConfIInv, ChoosePipe PROVE ConfIInv'
  OBVIOUS
<1>1. /\ wizard.pc = "pipe?"
      /\ UNCHANGED <<installed, shell, server, runs, crashes, origin, lost, choice>>
  BY DEF ChoosePipe
<1>2. CASE Goto("idle") /\ UNCHANGED file
  <2>1. wizard' \in WizardType /\ wizard'.pc = "idle"
    BY <1>2, WizardTyped, GotoIsTyped DEF WizardPcs
  <2>2. QED
    BY <1>1, <1>2, <2>1, WizardTyped, WizardKeeps
<1>3. ASSUME NEW p \in Pipes, file' = SetParam(file, "input_pipe", p), Goto("restart")
      PROVE  ConfIInv'
  <2>1. wizard' \in WizardType /\ wizard'.pc = "restart"
    BY <1>3, WizardTyped, GotoIsTyped DEF WizardPcs
  <2>2. "input_pipe" \in Keys \ {"output_pipe_prefix"} /\ p \in Values
    BY DEF Keys, Values
  <2>3. ConfTypeOK' /\ ReadHasModel' /\ ServesWhatStarts' /\ StaysComplete' /\ NothingToWrite'
    BY <1>1, <1>3, <2>1, <2>2, WizardTyped, SetParamKeeps DEF ConfTypeOK
  <2>4. InStep'
    BY <1>1, <2>1, WizardTyped DEF InStep
  <2>5. Choosing'
    <3>1. SUFFICES ASSUME Undisturbed, Trusted PROVE Coherent(file')
      BY <1>1, <2>1 DEF Choosing, Undisturbed, Trusted
    <3>2. Complete(file) /\ file # Missing /\ Coherent(file) /\ IsEntries(file.entries)
      BY <1>1, <3>1, WizardTyped DEF ConfIInv, Choosing, StaysComplete, Undisturbed
    <3>3. KeysOf(file.entries) = Keys
      BY <3>2, FactoryFacts DEF Complete
    <3>4. QED
      BY <1>3, <3>2, <3>3, PipeKeepsCoherent
  <2>6. QED
    BY <2>3, <2>4, <2>5 DEF ConfIInv
<1>4. QED
  BY <1>2, <1>3 DEF ChoosePipe

LEMMA StutterPreserves == ConfIInv /\ UNCHANGED confVars => ConfIInv'
<1>. SUFFICES ASSUME ConfIInv, UNCHANGED confVars PROVE ConfIInv'
  OBVIOUS
<1>. USE DEF confVars
<1>1. ConfTypeOK' /\ InStep' /\ ReadHasModel' /\ ServesWhatStarts'
  BY DEF ConfIInv, ConfTypeOK, InStep, ReadHasModel, ServesWhatStarts, Starts, Remaining
<1>2. StaysComplete' /\ NothingToWrite' /\ Choosing'
  BY DEF ConfIInv, StaysComplete, NothingToWrite, Choosing, Undisturbed, Trusted, Remaining
<1>3. QED
  BY <1>1, <1>2 DEF ConfIInv
-----------------------------------------------------------------------------
(***************************************************************************)
(* The theorems.                                                             *)
(***************************************************************************)

\* Every behaviour of the three programs keeps the inductive invariant.
THEOREM ConfigurationInvariant == ConfSpec => []ConfIInv
<1>1. ConfInit => ConfIInv
  BY InitEstablishes
<1>2. ConfIInv /\ [ConfNext]_confVars => ConfIInv'
  <2>. SUFFICES ASSUME ConfIInv, [ConfNext]_confVars PROVE ConfIInv'
    OBVIOUS
  <2>1. CASE ServerStep \/ ServerDies
    BY <2>1, ReadConfigPreserves, ServerWritesPreserves, BuildHelperPreserves,
       ServerDiesPreserves DEF ServerStep
  <2>2. CASE WizardStep
    BY <2>2, BeginPreserves, WipeFilePreserves, ShellReadsPreserves, ShellWritesPreserves,
       EnablePromptPreserves, ChooseModelPreserves, SetNextParamPreserves,
       ChoosePipePreserves, RestartServicePreserves, StopServicePreserves,
       InterruptPreserves DEF WizardStep
  <2>3. CASE UNCHANGED confVars
    BY <2>3, StutterPreserves
  <2>4. QED
    BY <2>1, <2>2, <2>3 DEF ConfNext
<1>3. QED
  BY <1>1, <1>2, PTL DEF ConfSpec

\* However often sed and config_file_read edit the file, it and what was read of it
\* hold a key once and a model main can make sense of.
THEOREM ConfigurationTypes == ConfSpec => []ConfTypeOK
<1>1. ConfIInv => ConfTypeOK
  BY DEF ConfIInv
<1>2. QED
  BY <1>1, ConfigurationInvariant, PTL

\* sed never leaves a comma behind the last key of a file this version wrote
\* (config_file.cpp:61-64), unless an older file has been written back.
THEOREM FileParsable == ConfSpec => []OwnFileStaysParsable
<1>1. ConfIInv => OwnFileStaysParsable
  BY DEF ConfIInv, StaysComplete, OwnFileStaysParsable, Complete, Missing
<1>2. QED
  BY <1>1, ConfigurationInvariant, PTL

\* No edit is lost to a server's write-back unless the file missed a key, or was
\* wiped, when it was read.
THEOREM FileLost == ConfSpec => []LostOnlyFromIncomplete
<1>1. ConfIInv => LostOnlyFromIncomplete
  BY DEF ConfIInv, NothingToWrite, LostOnlyFromIncomplete
<1>2. QED
  BY <1>1, ConfigurationInvariant, PTL

\* Once a choice has been carried through, the labels in the file are those of its
\* model, and are required but for YOLOv8 and YOLOv11, whatever was quit, interrupted
\* or failed before it, and whatever the server does meanwhile.
THEOREM FileCoherent == ConfSpec => []FileStaysCoherent
<1>1. ConfIInv => FileStaysCoherent
  BY DEF ConfIInv, Choosing, Undisturbed, Trusted, ChoiceCounts, FileStaysCoherent
<1>2. QED
  BY <1>1, ConfigurationInvariant, PTL

\* A server that serves runs the helper of its model's family, on files that exist,
\* whatever falls through the switch of create_model_helper.
THEOREM ServerFamily == ConfSpec => []ServesItsFamily
<1>1. ASSUME ConfIInv, server.pc = "serving"
      PROVE  LET m == ValueOf(server.read, "model") IN
             /\ HelperFor[m] = FamilyOf(m)
             /\ m \in installed
             /\ m \notin {"fastdepth", "movenet", "gate_xyz", "gate_yaw", "gate_bin"} =>
                   LabelsInUse(server.read) \in installed
  <2>. DEFINE m == ValueOf(server.read, "model")
  <2>1. m \in Models
    BY <1>1, ModelIsAModel DEF ConfIInv, ConfTypeOK, ReadHasModel
  <2>2. /\ m \in installed
        /\ ReadsLabels(HelperFor[m]) => LabelsInUse(server.read) \in installed
    BY <1>1 DEF ConfIInv, ServesWhatStarts, Starts
  <2>3. HelperFor[m] = FamilyOf(m)
    BY <2>1, HelperIsOfFamily
  <2>. HIDE DEF m
  <2>4. m \notin {"fastdepth", "movenet", "gate_xyz", "gate_yaw", "gate_bin"} =>
           ReadsLabels(FamilyOf(m))
    BY <2>1 DEF Models, FamilyOf, Decodes, ReadsLabels
  <2>5. QED
    BY <2>2, <2>3, <2>4 DEF m
<1>2. ConfIInv => ServesItsFamily
  BY <1>1 DEF ServesItsFamily, FamilyOf
<1>3. QED
  BY <1>2, ConfigurationInvariant, PTL
=============================================================================
