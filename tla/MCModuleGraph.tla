--------------------------- MODULE MCModuleGraph ---------------------------
EXTENDS ModuleGraph

In(type, number, readOnly) == [type |-> type, number |-> number, readOnly |-> readOnly]
Lib(type, in, out)         == [type |-> type, in |-> in, out |-> out]

\* A camera or a file; a filter; a processor with an output; a writer; and another camera,
\* which the writer takes then, or another writer.
MCLibraries ==
  1 :> {Lib("INPUT", <<>>, <<1, 2>>), Lib("INPUT", <<>>, <<AnyType>>)} @@
  2 :> {Lib("PROCESSOR", <<In(AnyType, AnyType, FALSE)>>, <<>>),
        Lib("PROCESSOR", <<In(1, 1, FALSE), In(2, 1, TRUE)>>, <<>>)} @@
  3 :> {Lib("PROCESSOR", <<In(AnyType, AnyType, TRUE)>>, <<3>>),
        Lib("PROCESSOR", <<In(AnyType, 1, FALSE)>>, <<>>)} @@
  4 :> {Lib("OUTPUT", <<In(AnyType, AnyType, TRUE)>>, <<>>),
        Lib("OUTPUT", <<In(AnyType, AnyType, FALSE)>>, <<>>)} @@
  5 :> {Lib("INPUT", <<>>, <<1>>),
        Lib("OUTPUT", <<In(1, 1, TRUE)>>, <<>>)}

MCOutputChoices == {<<1, 2>>}

\* All sets of inputs from the given streams, each after one of the modules or none.
Definitions(taken, modules) ==
  UNION {{{[source |-> st[1], type |-> st[2], after |-> after[st]] : st \in some} :
            after \in [some -> {None} \cup modules]} : some \in SUBSET taken \ {{}}}

MCInputChoices ==
  1 :> {{}} @@
  2 :> Definitions({<<1, 1>>, <<1, 2>>, <<3, 3>>}, {3}) @@
  3 :> Definitions({<<1, 1>>, <<1, 2>>}, {2}) @@
  4 :> (LET definitions == Definitions({<<1, 1>>, <<1, 2>>, <<3, 3>>}, {2, 3})
        IN  definitions \cup {def \cup {[source |-> 5, type |-> 1, after |-> None]} :
                                 def \in definitions}) @@
  5 :> {{[source |-> 1, type |-> 1, after |-> None]}}
=============================================================================
