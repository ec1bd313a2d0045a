-------------------------- MODULE DocumentPrograms --------------------------
(***************************************************************************)
(* The mains of the programs that go over the files of directories, most   *)
(* of them with several threads.  "workers" is the work of the threads, up *)
(* to the last join; the threads themselves are in InsertPipeline,         *)
(* KeyMapGen, TagMarkup, MergeMarkup, PosTagger and PatternMatcher.        *)
(***************************************************************************)
EXTENDS Stages

Threads == With("threads", Throws("size of the error buffer"))
Workers(w) == Do("workers", w)
DocumentClassOption == With("contenttype", Throws("document class"))
DetectedClass ==
    <<DocumentClassOption,
      With("file", Without("contenttype", Throws("detection of the document class")))>>

InsertLine ==
    <<Throws("error buffer"), Notes("options"), HasError, With("debug", Throws("debug")),
      Threads, HelpOption, Throws("module loader")>>
    \o LoadModulesLocally \o Information
    \o <<NofArgs(2, Many, 2), Exclusive("storage", "configfile"), ReadConfigFile,
         Without("rpc", Describes), PrintUsage>>
(* Failed commits are counted in the last message only; rt tells of failed *)
(* threads.                                                                *)
InsertWork ==
    Tracing \o <<With("logerror", Throws("log file")), Exclusive("resourcedir", "rpc"),
                 Throws("program path"), HasError>>
    \o BothBuilders \o Proxies
    \o <<Opens("storage client"), Throws("text processor")>> \o DetectedClass
    \o DocumentAnalyzer \o <<Throws("file crawler"), Workers("documents"),
         [Do("verdict", "threads") EXCEPT !.rt = -3], HasError,
         Reports("commits"), Finish>>

(* Here and below the error buffer keeps the size it was made with,        *)
(* whatever the number of threads.                                         *)
CheckInsertLine ==
    <<Throws("error buffer"), Notes("options"), HasError, With("debug", Throws("debug")),
      HelpOption, Throws("module loader")>>
    \o LoadModulesLocally \o Information
    \o <<NofArgs(0, 2, 1), NofArgs(2, Many, 2), Exclusive("storage", "configfile"),
         ReadConfigFile, Without("rpc", Describes), PrintUsage>>
CheckInsertWork ==
    Tracing
    \o <<Throws("program path"), HasError,
         Exclusive("rpc", "storage"), Exclusive("rpc", "configfile")>>
    \o BothBuilders \o Proxies
    \o <<Opens("storage client"), Throws("text processor")>> \o DetectedClass
    \o DocumentAnalyzer \o <<Throws("file crawler"), Workers("checks"),
         HasError, Finish>>

GenerateKeyMapLine ==
    Parse \o LoadModules \o Information
    \o <<NofArgs(0, 2, 1), NofArgs(2, Many, 2), PrintUsage>>
GenerateKeyMapWork ==
    Tracing \o <<Throws("program path")>> \o AnalyzerBuilder \o Proxies
    \o <<HasError, Throws("text processor")>> \o DetectedClass
    \o DocumentAnalyzer \o <<Throws("file crawler"), Workers("key map"),
         HasError, Finish>>

TagMarkupLine ==
    Parse \o LoadModulesLocally \o Information
    \o <<NofArgs(0, 2, 1), NofArgs(1, Many, 1), PrintUsage>>
TagMarkupWork ==
    Tracing \o <<Exclusive("resourcedir", "rpc"), Throws("output path"), HasError,
                 Throws("document path"), HasError>>
    \o AnalyzerBuilder \o Proxies
    \o <<Throws("text processor"), DocumentClassOption, Throws("file crawler"),
         Throws("document class detector"), Throws("expressions"),
         Throws("markup"), Notes("worker"), HasError, Workers("tags"),
         HasError, Finish>>

(* No modules, no storage: everything comes from the base library.         *)
MergeMarkupLine ==
    ErrorBuffer \o <<With("debug", Throws("debug")), Version,
                     NofArgs(0, 2, 1), NofArgs(2, Many, 2), PrintUsage>>
MergeMarkupWork ==
    <<HasError, Throws("paths"), Opens("file locator"),
      Opens("text processor"), Opens("document class detector"),
      Throws("file crawler"), Notes("worker"), HasError, Workers("merge"),
      HasError, Finish>>

PosTaggerLine ==
    Parse \o LoadModulesLocally \o Information
    \o <<NofArgs(0, 2, 1), NofArgs(2, Many, 2), PrintUsage>>
(* posinp: the input for the tagger is written.  Otherwise its result is   *)
(* loaded, before the workers are built, and put into the documents.       *)
PosTaggerWork ==
    <<Exclusive("posinp", "output"), Exclusive("posinp", "erroutput"),
      Without("posinp", With("entityprefix", Do("refuse", "entityprefix"))),
      Without("posinp", With("entityexpr", Do("refuse", "entityexpr")))>>
    \o Tracing \o <<Exclusive("resourcedir", "rpc"), HasError, Throws("paths"), HasError>>
    \o AnalyzerBuilder \o Proxies
    \o <<Throws("text processor"), DocumentClassOption, Throws("file crawler"),
         Throws("document class detector"), Throws("segmenter"),
         Throws("POS tagger"), Throws("entity segmenter"), Throws("tokenizer"),
         Assumes("POS tagger data"), Without("posinp", Throws("POS tag file")),
         HasError, Workers("tagging"), HasError, Finish>>

PatternMatcherLine ==
    ErrorBuffer
    \o <<NofArgs(0, 1, 1), NofArgs(1, Many, 2), With("debug", Throws("debug")),
         Threads, Throws("module loader")>>
    \o LoadModulesLocally \o <<Reports("pattern matcher module")>> \o Information
    \o <<PrintUsage>>
PatternMatcherWork ==
    <<Exclusive("ext", "filelist"), With("markup", Throws("markup")),
      With("markuptag", Throws("markup tag"))>>
    \o Tracing
    \o <<HasError, Exclusive("resourcedir", "rpc"), With("program", Throws("program path"))>>
    \o AnalyzerBuilder \o Proxies
    \o <<HasError, Throws("text processor"), Throws("pattern matcher"),
         Throws("pattern lexer"), Assumes("instances"), DocumentClassOption,
         Without("program", Do("refuse", "no program")), Throws("pattern program"),
         Throws("compilation"), Throws("input path"), Throws("thread contexts"),
         Workers("matches"), HasError, Finish>>
=============================================================================
