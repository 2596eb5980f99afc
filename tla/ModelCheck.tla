----------------------------- MODULE ModelCheck -----------------------------
(***************************************************************************)
(* The check of an uploaded Keras file (ml/inspect.py): the index and the   *)
(* members of the zip, the metadata, the architecture and the weights, in   *)
(* that order; the first check that fails is what the user is told.         *)
(*                                                                          *)
(* A JSON document is a sequence of nodes in document order, each with its  *)
(* parent and its key there, so node 1 is the document.  An HDF5 file is a  *)
(* function from objects to what they are, with their links in order.       *)
(***************************************************************************)
EXTENDS Integers, SequencesExt, FiniteSetsExt

CONSTANTS
    None,               \* JSON null, a key that is missing, nothing to say
    KerasModules,       \* the modules that are Keras' own
    CLASSES, FUNCTIONS, \* the allowlist: pairs of a module and a name
    EntriesMax, DirectoryMax, JsonMax, FileMax, ObjectsMax, ParametersMax

-----------------------------------------------------------------------------
\* The zip

IndexFails(index) ==
    \/ ~index.found
    \/ index.zip64 \/ index.entries > EntriesMax \/ index.size > DirectoryMax

Required == {"config.json", "metadata.json", "model.weights.h5"}
Holds(members, name) == \E i \in DOMAIN members : members[i].name = name
SizeOf(members, name) == Last(SelectSeq(members, LAMBDA member : member.name = name)).size

\* A member's name is a file of a model, an asset, or anything else.
MembersFail(members) ==
    \/ Len(members) > EntriesMax
    \/ \E i \in DOMAIN members : members[i].outside \/ members[i].name \notin Required \cup {"asset"}
    \/ \E name \in Required : ~Holds(members, name)
    \/ FoldLeft(LAMBDA sum, member : sum + member.size, 0, members) > 4 * FileMax
    \/ SizeOf(members, "model.weights.h5") > 2 * FileMax

\* A member that is no JSON object reads as None.
JsonFails(members, name, content) == SizeOf(members, name) > JsonMax \/ content = None

-----------------------------------------------------------------------------
\* The architecture

BuiltinNames == {function[2] : function \in FUNCTIONS}
Internal == {"__keras_tensor__"}
TrainingKeys == {"kernel_regularizer", "kernel_constraint"}
Own == "mine>Own"       \* how Keras names a user's class that is registered

\* "fine", "stub" (the user's registered object where only training uses it) or
\* "custom".
Verdict(node, training) ==
    LET AllowedIf(condition) == IF condition THEN "fine" ELSE "custom"
    IN  CASE node.kind # "object" \/ node.class = None -> "fine"
          [] node.class = "function" ->
                 AllowedIf(/\ node.registered \in {None, "function"}
                           /\ \/ node.module = "builtins" /\ node.function \in BuiltinNames
                              \/ <<node.module, node.function>> \in FUNCTIONS)
          [] node.class \in Internal /\ node.module = None /\ node.registered = None -> "fine"
          [] node.module \in KerasModules /\ node.class # "function" ->
                 AllowedIf(/\ <<node.module, node.class>> \in CLASSES
                           /\ node.registered \in {None, node.class})
          [] OTHER -> IF training /\ node.registered = Own THEN "stub" ELSE "custom"

\* A wrong form: the objects inside a regularizer count as the layer's again.
SkippedByKey(doc, i, training) == doc[i].key \in TrainingKeys
\* Keys are None in a list, which is of training if the list is.
Skipped(doc, i, training) == training \/ doc[i].key \in TrainingKeys

\* The named items of a list `layers` are layers.
IsLayer(doc, i) ==
    /\ doc[i].parent # 0 /\ doc[i].name # None
    /\ doc[doc[i].parent].kind = "list" /\ doc[doc[i].parent].key = "layers"

Children(doc, i) == SelectSeq([j \in DOMAIN doc |-> j], LAMBDA j : doc[j].parent = i)

RECURSIVE CustomCode(_, _)
CustomCode(doc, stack) ==
    LET entry == Last(stack)
        verdict == Verdict(doc[entry.at], entry.training)
        inside == [k \in DOMAIN Children(doc, entry.at) |->
                      LET i == Children(doc, entry.at)[k]
                      IN  [at |-> i, training |-> Skipped(doc, i, entry.training),
                           layer |-> IF IsLayer(doc, i) THEN doc[i].name ELSE entry.layer]]
    IN  CASE stack = <<>> -> None
          [] stack # <<>> /\ verdict = "custom" -> [at |-> entry.at, layer |-> entry.layer]
          [] stack # <<>> /\ verdict = "stub" -> CustomCode(doc, Front(stack))
          [] OTHER -> CustomCode(doc, Front(stack) \o Reverse(inside))

ModelClasses == {<<"keras.src.models.functional", "Functional">>, <<"keras", "Sequential">>}

\* compile_config, which the worker removes before it loads the file, is not walked.
FirstCustom(doc) ==
    CustomCode([i \in DOMAIN doc |->
                   IF doc[i].key = "compile_config" /\ doc[i].parent = 1
                     THEN [doc[i] EXCEPT !.parent = 0] ELSE doc[i]],
               <<[at |-> 1, training |-> FALSE, layer |-> None]>>)
ArchitectureFails(doc) ==
    \/ <<doc[1].module, doc[1].class>> \notin ModelClasses
    \/ FirstCustom(doc) # None

-----------------------------------------------------------------------------
\* The weights: objects are a group, a dataset or of another kind, and a link is
\* hard, or it is not and fails the check.

RECURSIVE SizesUnder(_, _, _, _)
SizesUnder(objects, groups, visited, total) ==
    LET links == objects[Last(groups)].links
        ends == [k \in DOMAIN links |-> links[k].to]
        OfKind(kind) == SelectSeq(ends, LAMBDA o : objects[o].kind = kind)
        sizes == FoldLeft(LAMBDA sum, o : sum + objects[o].size, 0, OfKind("dataset"))
    IN  CASE groups = <<>> -> total
          [] groups # <<>> /\ (\/ visited + Len(links) > ObjectsMax
                               \/ \E k \in DOMAIN links : ~links[k].hard) -> None
          [] OTHER -> SizesUnder(objects, Front(groups) \o OfKind("group"),
                                 visited + Len(links), total + sizes)

\* objects["layers"] is missing, or what the link `layers` names; None is a failure.
CountParameters(file) ==
    LET objects == file.objects
        counted ==
            CASE ~file.readable -> None
              [] "layers" \notin DOMAIN objects -> 0
              [] "layers" \in DOMAIN objects /\ ~file.hard -> None
              [] OTHER -> SizesUnder(objects, IF objects["layers"].kind = "group" THEN <<"layers">> ELSE <<>>, 0, 0)
    IN  IF counted # None /\ counted \in 1..ParametersMax THEN counted ELSE None

-----------------------------------------------------------------------------
\* The shapes of one sample, from the model's own layers; None if not plain.

SampleShape(shape) ==
    IF shape # None /\ Len(shape) >= 2 /\ \A d \in 2..Len(shape) : shape[d] # None
    THEN Tail(shape) ELSE None

InputShape(layers) ==
    LET inputs == SelectSeq(layers, LAMBDA layer : layer.class = "InputLayer")
    IN  IF Len(inputs) = 1 THEN SampleShape(inputs[1].batch_shape) ELSE None

\* A Sequential's last layer, a Functional's one output if one layer has its name.
OutputLayer(model) ==
    LET named == SelectSeq(model.layers, LAMBDA layer : layer.name = model.output)
    IN  CASE model.class = "Sequential" ->
                 IF model.layers # <<>> /\ Last(model.layers).class # "InputLayer"
                 THEN Last(model.layers) ELSE None
          [] OTHER -> IF model.output # None /\ Len(named) = 1 THEN named[1] ELSE None

SHAPE_KEEPING == {"Dropout", "ReLU"}
Keeps(class) == class \in SHAPE_KEEPING

OutputShape(model) ==
    LET layer == OutputLayer(model)
        shape == IF layer = None THEN None ELSE SampleShape(layer.built)
    IN  CASE shape = None -> None
          [] shape # None /\ layer.class = "Dense" ->
                 IF layer.units # None THEN Append(Front(shape), layer.units) ELSE None
          [] shape # None /\ layer.class = "Flatten" -> <<FoldLeft(LAMBDA size, d : size * d, 1, shape)>>
          [] shape # None /\ Keeps(layer.class) -> shape
          [] OTHER -> None

-----------------------------------------------------------------------------
\* The check that fails first (opens or weights), or the facts; file.model is what
\* the layers of file.config are.
Inspect(file) ==
    IF \/ IndexFails(file.index)
       \/ MembersFail(file.members)
       \/ JsonFails(file.members, "metadata.json", file.keras_version)
       \/ JsonFails(file.members, "config.json", file.config)
       \/ ArchitectureFails(file.config)
    THEN [failed |-> "opens"]
    ELSE LET parameters == CountParameters(file.weights)
         IN  IF parameters = None THEN [failed |-> "weights"]
             ELSE [parameters |-> parameters, keras_version |-> file.keras_version,
                   input_shape |-> InputShape(file.model.layers), output_shape |-> OutputShape(file.model)]

-----------------------------------------------------------------------------
\* Correctness

RECURSIVE Ancestors(_, _)
Ancestors(doc, i) == IF i = 0 THEN {} ELSE {i} \cup Ancestors(doc, doc[i].parent)

\* Accepted means that the loader builds nothing but the allowlist: every object
\* of the document, but those of compile_config and those that are or lie inside
\* a user's own object that is of training, is one of it; and if one is not, the
\* user is told of the first, by the innermost layer around it (inspect.py,
\* _custom_code).
OnlyTheAllowedLoads(doc) ==
    LET OfTraining(i) == \E a \in Ancestors(doc, i) : doc[a].key \in TrainingKeys
        Stubbed(i) == OfTraining(i) /\ doc[i].registered = Own /\ doc[i].module \notin KerasModules
        built == {i \in DOMAIN doc :
                     /\ doc[i].kind = "object" /\ doc[i].class # None
                     /\ ~\E a \in Ancestors(doc, i) :
                            Stubbed(a) \/ (doc[a].key = "compile_config" /\ doc[a].parent = 1)}
        Allowed(i) == \/ <<doc[i].module, doc[i].class>> \in CLASSES
                      \/ doc[i].class \in Internal
                      \/ doc[i].class = "function" /\ doc[i].function \in BuiltinNames
        custom == {i \in built : ~Allowed(i)}
        told == FirstCustom(doc)
        layers == {a \in Ancestors(doc, told.at) : IsLayer(doc, a)}
    IN  IF custom = {} THEN told = None
        ELSE /\ told.at = Min(custom)
             /\ told.layer = IF layers = {} THEN None ELSE doc[Max(layers)].name

\* The ways from the layers to an object, link by link.
Ways(file) ==
    LET extended[n \in 0..Cardinality(DOMAIN file.objects)] ==
            IF n = 0 THEN {<<[via |-> 0, at |-> "layers"]>>}
            ELSE {Append(way, [via |-> k, at |-> file.objects[Last(way).at].links[k].to]) :
                     <<way, k>> \in {x \in extended[n - 1] \X (1..2) :
                                        x[2] \in DOMAIN file.objects[Last(x[1]).at].links}}
    IN  extended

\* The weights of every dataset the layers hold are counted, once for each way to
\* it, and nothing is followed in circles, over a link that is not hard, or
\* further than the limit (inspect.py, _sizes_under).
WeightsAreCounted(file) ==
    LET ways == Ways(file)
        longest == Cardinality(DOMAIN file.objects)
        within == UNION {ways[n] : n \in 1..longest}
        total == MapThenSumSet(LAMBDA way : file.objects[Last(way).at].size, within)
        links == {file.objects[Last(way).at].links : way \in ways[0] \cup within}
        whole == /\ ways[longest] = {}
                 /\ \A list \in links : \A k \in DOMAIN list : list[k].hard
                 /\ Cardinality(within) <= ObjectsMax
                 /\ file.readable /\ file.hard
    IN  CountParameters(file) = IF whole /\ total \in 1..ParametersMax THEN total ELSE None

\* A shape the user is shown is that of the model's samples (inspect.py,
\* _output_shape): real is what each layer gives, from the input on.
ShapesAreReal(model, real) ==
    LET shape == OutputShape(model)
    IN  /\ InputShape(model.layers) # None => InputShape(model.layers) = real[1]
        /\ shape # None =>
               \E i \in DOMAIN model.layers : model.layers[i] = OutputLayer(model) /\ shape = real[i]

\* A file is taken only if it is a whole model and no more: its own three members
\* and assets, none of them outside it, the weights and everything together within
\* the limits, nothing custom, and weights of the layers; and it fails for its
\* weights only if nothing else is wrong (inspect.py, inspect_keras).
OnlyWholeFilesPass(file) ==
    LET answer == Inspect(file)
        names == {file.members[i].name : i \in DOMAIN file.members}
        Unpacked(kept) == MapThenSumSet(LAMBDA i : file.members[i].size,
                                        {i \in DOMAIN file.members : file.members[i].name \in kept})
        opens == /\ file.index.found /\ ~file.index.zip64 /\ file.index.entries <= EntriesMax
                 /\ Required \subseteq names /\ names \subseteq Required \cup {"asset"}
                 /\ \A i \in DOMAIN file.members : ~file.members[i].outside
                 /\ Unpacked(names) <= 4 * FileMax
                 /\ file.keras_version # None /\ file.config # None
                 /\ \A i \in DOMAIN file.config : file.config[i].class # "Lambda"
    IN  /\ "parameters" \in DOMAIN answer => opens /\ answer.parameters = CountParameters(file.weights)
        /\ "failed" \in DOMAIN answer /\ answer.failed = "weights" => opens
        /\ opens /\ Cardinality(names) = Len(file.members) => answer # [failed |-> "opens"]
=============================================================================
