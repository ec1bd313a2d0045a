------------------------------- MODULE Stages -------------------------------
(***************************************************************************)
(* The vocabulary in which the main functions of the programs are written  *)
(* down, and the passages that many of them have word for word.  What a    *)
(* stage of each kind does is in ProgramLifecycle.                         *)
(***************************************************************************)
EXTENDS Integers, Sequences

Many == 99  \* more arguments than any command line has

Do(kind, w) == [do |-> kind, what |-> w, need |-> {}, bar |-> {},
                low |-> 0, high |-> 0, rt |-> 0]
With(o, s) == [s EXCEPT !.need = @ \cup {o}]
Without(o, s) == [s EXCEPT !.bar = @ \cup {o}]

Throws(w) == Do("try", w)
Notes(w) == Do("note", w)
Reports(w) == Do("report", w)
HasError == Do("test", "error buffer")
Assumes(w) == Do("dereference", w)
Opens(w) == Do("open", w)
Produces(w) == Do("effect", w)
Attempts(w) == Do("attempt", w)
InPortions(w) == Do("portions", w)
Works(w) == Do("work", w)
Finish == Do("exit", "done")
Exclusive(a, b) == With(a, With(b, Do("refuse", "exclusive options")))
Complains(code) == [Do("complain", "conflict") EXCEPT !.rt = code]
Requires(code) == [Do("require", "missing option") EXCEPT !.rt = code]
NofArgs(low, high, code) ==
    [Do("arguments", "nofargs") EXCEPT !.low = low, !.high = high, !.rt = code]

HelpOption == With("help", Do("help", "usage"))
License == With("license", Do("inform", "license"))
Version == With("version", Do("inform", "version"))
PrintUsage == Do("usage", "usage")
Describes == Do("describe", "configuration")

(* From the start of main to the module loader; strusPatternMatcher and    *)
(* strusPatternSerialize look at the arguments in between.                 *)
ErrorBuffer == <<Throws("error buffer"), Notes("options"), HasError, HelpOption>>
DebugAndLoader == <<With("debug", Throws("debug")), Throws("module loader")>>
Parse == ErrorBuffer \o DebugAndLoader

LoadModules == <<With("module", Throws("module"))>>
LoadModulesLocally ==
    <<Exclusive("moduledir", "rpc"), Exclusive("module", "rpc")>> \o LoadModules
Information == <<License, Version>>

(* --storage and --configfile (or --config) as two ways to say the same.   *)
ReadConfigFile == With("configfile", Throws("configuration file"))
OneConfig(o, code) == With(o, With("configfile", Complains(code)))
SomeConfig(o, code) == Without(o, Without("configfile", Requires(code)))

Tracing == <<With("trace", Throws("trace"))>>
Proxies == <<With("trace", Throws("trace proxy"))>>
(* The object builders, from the modules or from the RPC server.           *)
Builders(names) ==
    <<With("rpc", Opens("rpc client"))>>
    \o [i \in 1 .. Len(names) |-> Opens(names[i])]
StorageBuilder == Builders(<<"storage builder">>)
AnalyzerBuilder == Builders(<<"analyzer builder">>)
BothBuilders == Builders(<<"storage builder", "analyzer builder">>)
(* "file" stands for an input path that names a file, not a directory.     *)
Unclassed(s) == Without("file", Without("contenttype", s))
(* The analyzer programs of the class of the documents, or, if it is not   *)
(* known, of each class: then failures stay in the error buffer or are     *)
(* taken out of it without a word.                                         *)
DocumentAnalyzer ==
    <<Throws("analyzer programs"), Unclassed(Reports("program of a class")),
      Unclassed(Notes("analyzer programs"))>>
(* A configuration string has to name its database.                        *)
DatabaseName == <<Notes("database name"), HasError>>
=============================================================================
