---------------------------- MODULE MCAlgorithms ----------------------------
(* The options and predictions of the runs of Signals, and beside them the     *)
(* other algorithms on data: each state of `case` other than None is one input *)
(* of one of them, on which it is compared with what it is meant to compute,   *)
(* or the start of the searches, which take steps of their own.                *)
EXTENDS Signals

CONSTANTS Instruments, Frames, Searches, Asks(_)    \* see InstrumentSearch

None == Unset   \* what the other modules call it

VARIABLES case,     \* None, or the input of an algorithm
          latest, joined, stage, asked, took, rows, answer     \* see InstrumentSearch
searching == <<latest, joined, stage, asked, took, rows, answer>>

Figures == INSTANCE Metrics WITH Undefined <- None
Model == INSTANCE ModelCheck WITH
    KerasModules <- {"keras", "keras.layers"},
    CLASSES <- {<<"keras", "Sequential">>, <<"keras.layers", "Dense">>},
    FUNCTIONS <- {<<"keras.activations", "relu">>},
    EntriesMax <- 4, DirectoryMax <- 1, JsonMax <- 1, FileMax <- 2, ObjectsMax <- 4,
    ParametersMax <- 5

Plain == [calibrate |-> None, calibration_window |-> None, ema |-> None,
          rule |-> "threshold", limits |-> None, exit |-> None, k |-> None,
          kmeans_window |-> None, refit_every |-> None, long_only |-> FALSE,
          confirm |-> None, min_hold |-> None, allow_gaps |-> FALSE]

\* Every mix of the options that the check looks at.
Mixes ==
    {[Plain EXCEPT !.calibrate = c, !.calibration_window = w, !.rule = r, !.limits = l,
                   !.exit = e, !.k = k, !.kmeans_window = kw, !.refit_every = f] :
        c \in {None, "rank", "zscore"}, w \in {None, 3},
        r \in {"threshold", "hysteresis", "kmeans"}, l \in {None, {1}, {1, 2}},
        e \in {None, 0, 2}, k \in {None, 3}, kw \in {None, 4, 6}, f \in {None, 2}}

Gapped == [Plain EXCEPT !.allow_gaps = TRUE]
Held == [Gapped EXCEPT !.confirm = 2, !.min_hold = 3]
Both == [Gapped EXCEPT !.rule = "hysteresis", !.limits = {1, 2}, !.exit = 1]

\* The rules and filters on the predictions as they come.
Ruled ==
    {[Plain EXCEPT !.limits = {1, 2}],
     [Both EXCEPT !.min_hold = 2],
     [Both EXCEPT !.long_only = TRUE, !.confirm = 2],
     [Held EXCEPT !.limits = {1}]}

\* The steps before the rule, and a fit of two and of three groups.
Prepared ==
    {[Gapped EXCEPT !.calibrate = "rank", !.calibration_window = 3, !.ema = 3,
                    !.limits = {0}, !.min_hold = 2],
     [Gapped EXCEPT !.calibrate = "zscore", !.calibration_window = 3, !.limits = {0, 1}]}
Grouped ==
    {[Plain EXCEPT !.rule = "kmeans", !.k = 2, !.kmeans_window = 4, !.refit_every = 2],
     [Plain EXCEPT !.rule = "kmeans", !.k = 3, !.kmeans_window = 6, !.refit_every = 1]}

MCArgs == Mixes \cup Ruled \cup Prepared \cup Grouped
MCTried(a) == IF a \in Grouped THEN 7 ELSE IF a \in Ruled \cup Prepared THEN 5 ELSE 0
MCValues(a) == IF a \in Grouped THEN {-1, 0, 2} ELSE -2..2
MCCandleSets == {1..7, {1, 2, 4, 5, 6}}

-----------------------------------------------------------------------------
\* Runs of up to three rows over up to three days, and the trades of a run.
Halves == {<<0, 1>>, <<1, 2>>, <<1, 1>>, <<3, 2>>}
Days == {<<1, 1, 2>>, <<1, 2, 2>>, <<1, 2, 3>>}
Closes == {<<>>, <<2, 3, 1, 4>>}
Deals == <<[return |-> <<-1, 2>>, fees |-> <<1, 10>>], [return |-> <<0, 1>>, fees |-> <<1, 10>>],
           [return |-> <<1, 5>>, fees |-> <<0, 1>>]>>
OfKind(kind) == case # None /\ case.of = kind
RunCases ==
    {[of |-> "run", trades |-> SubSeq(Deals, 1, Len(e)),
      series |-> [i \in DOMAIN e |-> [ts |-> i, day |-> d[i], equity |-> e[i],
                                     position |-> IF e[i] = Num(1) THEN 0 ELSE 1]],
      candles |-> [i \in DOMAIN c |-> [ts |-> i, close |-> Num(c[i])]]] :
        e \in UNION {[1..n -> Halves] : n \in 0..3}, d \in Days, c \in Closes}

\* The groups of every fit are the nearest and at rest, and the statistics of a run
\* agree with each other and with what they are meant to be.
FiguresAgree ==
    /\ FitsAreAtRest
    /\ OfKind("run") => Figures!StatisticsAgreeOf(case.trades, case.series, case.candles, 2)

-----------------------------------------------------------------------------
\* Documents of a root and three nodes below it, and of a root, its layers and
\* three nodes below those.
Node(kind, module, class, registered) ==
    [parent |-> 0, key |-> None, kind |-> kind, module |-> module, class |-> class,
     registered |-> registered, function |-> None, name |-> class]
Root == Node("object", "keras", "Sequential", None)
JsonList == Node("list", None, None, None)
Dense == Node("object", "keras.layers", "Dense", None)
OwnObject == Node("object", "mine", "Own", "mine>Own")
Lambda == Node("object", "keras.layers", "Lambda", None)
Functions == {[Node("object", "builtins", "function", "function") EXCEPT !.function = f] : f \in {"relu", "eval"}}
Keys == {"layers", "kernel_regularizer", "compile_config"}

\* Where three nodes in document order may hang below the node at.
Shapes(at) == {<<at, q, r>> : q \in {at, at + 1}, r \in at..at + 2} \ {<<at, at, at + 1>>}
Placed(node, parent, key, of) ==
    [node EXCEPT !.parent = parent, !.key = IF of.kind = "object" THEN key ELSE None]
Hung(doc, nodes, shape, keys) ==
    FoldLeft(LAMBDA d, i : Append(d, Placed(nodes[i], shape[i], keys[i], d[shape[i]])), doc, <<1, 2, 3>>)
DocCases ==
    {[of |-> "document", doc |-> Hung(<<Root>>, nodes, shape, keys)] :
        nodes \in [1..3 -> {JsonList, Dense, OwnObject, Lambda}], shape \in Shapes(1), keys \in [1..3 -> Keys]}
    \cup
    {[of |-> "document", doc |-> Hung(<<Root, [JsonList EXCEPT !.parent = 1, !.key = "layers"]>>, nodes, shape, keys)] :
        nodes \in [1..3 -> {Dense, OwnObject, Lambda} \cup Functions], shape \in Shapes(2),
        keys \in {<<k, l, "kernel_constraint">> : k \in Keys, l \in Keys}}

\* Files of weights: the layers, two groups and a dataset, and their links.
Group(links) == [kind |-> "group", links |-> links, size |-> 0]
Dataset == [kind |-> "dataset", links |-> <<>>, size |-> 2]
Link(to, hard) == [to |-> to, hard |-> hard]
Linked(to, soft) == [k \in DOMAIN to |-> Link(to[k], ~soft)]
Ends == {<<>>} \cup {<<x>> : x \in {"a", "b", "w"}} \cup {<<x, y>> : x \in {"a", "b"}, y \in {"w", "layers"}}
WeightCases ==
    {[of |-> "weights",
      file |-> [readable |-> TRUE, hard |-> hard,
                objects |-> [layers |-> Group(Linked(l, FALSE)), a |-> Group(Linked(a, FALSE)),
                             b |-> Group(Linked(b, soft)), w |-> Dataset]]] :
        l \in Ends, a \in Ends, b \in Ends, soft \in BOOLEAN, hard \in BOOLEAN}

\* Chains of layers, each built for what the one before it gives.
Gives(class, shape) ==
    CASE class = "Dense" -> Append(Front(shape), 5)
      [] class = "Flatten" -> <<FoldLeft(LAMBDA x, y : x * y, 1, shape)>>
      [] class = "LSTM" -> <<7>>
      [] OTHER -> shape
Given0(shape, classes) ==
    FoldLeft(LAMBDA shapes, class : Append(shapes, Gives(class, Last(shapes))), <<shape>>, classes)
ChainCases ==
    {[of |-> "chain", real |-> Given0(shape, classes),
      model |-> [class |-> class, output |-> output,
                 layers |-> [i \in 1..Len(classes) + 1 |->
                     [class |-> (<<"InputLayer">> \o classes)[i], name |-> names[i], units |-> 5,
                      batch_shape |-> <<None>> \o shape,
                      built |-> IF i = 1 THEN None ELSE <<None>> \o Given0(shape, classes)[i - 1]]]]] :
        shape \in {<<4>>, <<2, 3>>}, class \in {"Sequential", "Functional"}, output \in {"x", "y"},
        names \in {<<"in", "x", "y">>, <<"in", "y", "y">>},
        classes \in UNION {[1..n -> {"Dense", "Flatten", "Dropout", "LSTM"}] : n \in 1..2}}

\* Files as a whole: one of each that is right, and what may be wrong with it.
Member(name, size) == [name |-> name, size |-> size, outside |-> FALSE]
Members == <<Member("config.json", 1), Member("metadata.json", 1), Member("model.weights.h5", 3)>>
FileCases ==
    {[of |-> "file",
      file |-> [index |-> index, members |-> members, keras_version |-> version, config |-> doc,
                model |-> [class |-> "Sequential", output |-> None, layers |-> <<>>],
                weights |-> [readable |-> TRUE, hard |-> TRUE, objects |-> objects]]] :
        objects \in {[layers |-> Group(<<Link("w", TRUE)>>), w |-> Dataset],
                     [layers |-> Dataset], [optimizer |-> Dataset]},
        index \in {[found |-> TRUE, zip64 |-> z, entries |-> n, size |-> 1] : z \in BOOLEAN, n \in 3..5},
        members \in {Members, Tail(Members), Append(Members, Member("other", 0)),
                     Append(Members, Member("asset", 4)), Append(Members, Member("asset", 1)),
                     Append(Members, Member("model.weights.h5", 1)),
                     Append(Members, [Member("asset", 0) EXCEPT !.outside = TRUE])},
        version \in {None, "3.15.1"},
        doc \in {None, <<Root>>, <<Root, Placed(Lambda, 1, "config", Root)>>}}

\* Pairs and stocks named with four letters, the stats of two refreshes, and two
\* searches, of which the second always asks for everything.
Instrument(market, exchange, symbol, base, quote, words) ==
    [market |-> market, exchange |-> exchange, symbol |-> symbol, base |-> base,
     quote |-> quote, words |-> words]
Pair(base, quote) == Instrument("crypto", "BINANCE", base \o quote, base, quote, <<0>> \o base \o <<0>> \o quote)
Stock(symbol, words) == Instrument("stock", "NYSE", symbol, <<>>, <<>>, words)
MCInstruments == {Pair(<<2>>, <<4>>), Pair(<<2>>, <<3>>), Pair(<<3>>, <<4>>), Stock(<<2>>, <<0, 3>>),
                  Stock(<<2, 0, 3>>, <<0, 1, 0, 2>>), Stock(<<3, 4>>, <<0, 1, 2>>)}
Numbers(volume, change) == [price |-> 1, volume |-> volume, change |-> change]
MCFrames == <<(Pair(<<2>>, <<3>>) :> Numbers(5, 1)) @@ (Stock(<<2>>, <<0, 3>>) :> Numbers(9, None)),
              (Pair(<<2>>, <<3>>) :> Numbers(5, -2)) @@ (Pair(<<3>>, <<4>>) :> Numbers(7, 3))>>
Everything == [q |-> None, market |-> None, exchange |-> None, sort |-> "volume", limit |-> 9, offset |-> 0]
MCAsks(s) ==
    IF s = 2 THEN {Everything}
    ELSE {[q |-> q, market |-> m, exchange |-> e, sort |-> sort, limit |-> page[1], offset |-> page[2]] :
             q \in {None, <<0>>, <<2>>, <<3>>, <<2, 0, 3>>}, m \in {None, "crypto"}, e \in {None, "NYSE"},
             sort \in {"volume", "-change", "symbol"}, page \in {<<4, 0>>, <<2, 1>>, <<0, 0>>, <<9, 9>>}}

Search == INSTANCE InstrumentSearch WITH frame <- latest, at <- stage

\* Every page of a search is of the stats it took, and best first.
PagesAreRight == Search!PagesAreOfTheirStats

\* The check of an uploaded model is right about the architecture, the weights, the
\* shapes and the whole of a file.
TheCheckIsRight ==
    /\ OfKind("document") => Model!OnlyTheAllowedLoads(case.doc)
    /\ OfKind("weights") => Model!WeightsAreCounted(case.file)
    /\ OfKind("file") => Model!OnlyWholeFilesPass(case.file)
    /\ OfKind("chain") => Model!ShapesAreReal(case.model, case.real)

-----------------------------------------------------------------------------
MCInit ==
    /\ Search!Init
    /\ \/ SignalsInit /\ case = None
       \/ /\ \/ case \in RunCases \/ case \in DocCases \/ case \in WeightCases
             \/ case \in FileCases \/ case \in ChainCases \/ case = [of |-> "search"]
          /\ args = Plain /\ verdict = "figures" /\ candles = {}
          /\ own = <<>> /\ frame = <<>> /\ signal = <<>>
MCNext ==
    \/ Check /\ UNCHANGED <<case, searching>>
    \/ \E t \in 1..Tried(args), value \in Values(args) : Predict(t, value) /\ UNCHANGED <<case, searching>>
    \/ OfKind("search") /\ Search!Refreshed /\ UNCHANGED <<signalsVars, case>>
    \/ \E s \in Searches : \E ask \in Asks(s) :
           OfKind("search") /\ Search!Ask(s, ask) /\ UNCHANGED <<signalsVars, case>>
    \/ \E s \in Searches : Search!TakeStats(s) /\ UNCHANGED <<signalsVars, case>>
    \/ \E s \in Searches : Search!ReadJoined(s) /\ UNCHANGED <<signalsVars, case>>
    \/ \E s \in Searches : Search!KeepJoined(s) /\ UNCHANGED <<signalsVars, case>>
    \/ \E s \in Searches : Search!CutPage(s) /\ UNCHANGED <<signalsVars, case>>
MCSpec == MCInit /\ [][MCNext]_<<signalsVars, case, searching>>
=============================================================================
