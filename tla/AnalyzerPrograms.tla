-------------------------- MODULE AnalyzerPrograms --------------------------
(***************************************************************************)
(* The mains of the programs that analyze a text or a query and print the  *)
(* result, and of those that print what an index or a module holds.        *)
(***************************************************************************)
EXTENDS Stages

(* The document class: given with an option, or detected from the input.   *)
DocumentClass ==
    <<With("contenttype", Throws("document class")),
      Without("contenttype", Throws("detection of the document class"))>>

HelpLine ==
    Parse \o LoadModulesLocally \o Information \o <<NofArgs(0, 2, 1), PrintUsage>>
HelpWork ==
    <<Throws("item")>> \o Tracing \o <<Exclusive("resourcedir", "rpc")>>
    \o BothBuilders \o Proxies
    \o <<HasError, Throws("text processor"), Throws("query processor"),
         Throws("item type"), InPortions("descriptions"), HasError, Finish>>

(* rpc is asked for by line 248, but it is no option of this program.      *)
AnalyzePhraseLine ==
    Parse \o LoadModules \o Information
    \o <<NofArgs(0, 1, 1), NofArgs(1, Many, 2), PrintUsage>>
AnalyzePhraseWork ==
    Tracing \o AnalyzerBuilder \o Proxies
    \o <<HasError, Throws("analyzer"), Throws("text processor"),
         Throws("phrase type"), With("fileinput", Throws("query file")),
         Throws("context"), Notes("analysis"), HasError,
         Produces("terms"), HasError, Finish>>

SegmentLine ==
    Parse \o LoadModules \o Information
    \o <<NofArgs(0, 1, 1), NofArgs(1, Many, 2), PrintUsage>>
SegmentWork ==
    <<Throws("program path")>> \o Tracing \o <<HasError>>
    \o AnalyzerBuilder \o Proxies
    \o <<Throws("text processor")>> \o DocumentClass
    \o <<Throws("segmenter"), Notes("expression"), Throws("context"),
         Works("segments"), HasError, Finish>>

AnalyzeLine ==
    Parse \o LoadModulesLocally \o Information
    \o <<NofArgs(0, 2, 1), NofArgs(2, Many, 2), PrintUsage>>
(* Only after a single file the error buffer is looked at.                 *)
AnalyzeWork ==
    <<Exclusive("dump", "structlist"), Exclusive("dump", "fieldtree"),
      Exclusive("structlist", "fieldtree"),
      With("unique", Without("dump", Do("refuse", "unique")))>>
    \o Tracing \o <<Exclusive("resourcedir", "rpc"), Throws("program path"), HasError>>
    \o AnalyzerBuilder \o Proxies
    \o <<Throws("text processor"), With("contenttype", Throws("document class")),
         Throws("input path"),
         With("file", Without("contenttype", Throws("detection of the document class")))>>
    \o DocumentAnalyzer
    \o <<Without("file", Throws("file crawler")),
         Works("analysis"), With("file", HasError), Finish>>

PatternSerializeLine ==
    ErrorBuffer \o <<NofArgs(0, 1, 1), NofArgs(1, Many, 2)>> \o DebugAndLoader
    \o LoadModulesLocally \o <<Reports("pattern matcher module")>> \o Information
    \o <<PrintUsage>>
PatternSerializeWork ==
    Tracing \o <<Exclusive("resourcedir", "rpc"), Throws("program path")>>
    \o AnalyzerBuilder \o Proxies
    \o <<HasError, Throws("serializer"), Works("program"), HasError, Finish>>

AnalyzeQueryLine ==
    Parse \o LoadModulesLocally \o Information
    \o <<NofArgs(0, 2, 1), NofArgs(2, Many, 2), PrintUsage>>
(* The component at work is in QueryLoader.                                *)
AnalyzeQueryWork ==
    Tracing \o <<Exclusive("resourcedir", "rpc"), Throws("program path")>>
    \o BothBuilders \o Proxies
    \o <<With("fileinput", Throws("query file")), HasError, Throws("analyzer"),
         Throws("text processor"), Throws("analyzer program"),
         Throws("query processor"), Works("query"), HasError, Finish>>

QueryLine ==
    Parse \o LoadModulesLocally \o Information
    \o <<NofArgs(0, 3, 1), NofArgs(3, Many, 2), Without("rpc", Describes), PrintUsage>>
(* Storage and configuration file are of no interest to the RPC server:    *)
(* they are not refused here.                                              *)
QueryWork ==
    <<Exclusive("storage", "configfile"), ReadConfigFile>> \o Tracing
    \o <<With("debug", Throws("debug")), Throws("program path"), HasError>>
    \o BothBuilders \o Proxies
    \o <<Opens("storage client"), Throws("analyzer"), Throws("query evaluation"),
         Throws("query processor"), Throws("text processor"), HasError,
         Throws("analyzer program"), Throws("query evaluation program"),
         With("fileinput", Throws("query file")), Works("ranks"), HasError, Finish>>

InspectLine ==
    Parse \o LoadModulesLocally \o Information
    \o <<NofArgs(1, Many, 1), Without("rpc", Describes), PrintUsage>>
(* The component at work is in Inspect.                                    *)
InspectWork ==
    <<Exclusive("storage", "rpc")>> \o Tracing \o <<HasError>>
    \o StorageBuilder \o Proxies
    \o <<Opens("storage client"), Works("listing"), HasError, Finish>>

InspectVectorStorageLine ==
    Parse \o LoadModules \o <<Reports("vector storage module")>> \o Information
    \o <<NofArgs(1, Many, 2), ReadConfigFile, OneConfig("config", 3),
         Describes, PrintUsage>>
InspectVectorStorageWork ==
    Tracing
    \o <<With("minsim", Throws("range")), With("recall", Throws("range")), HasError>>
    \o StorageBuilder \o Proxies
    \o <<Notes("storage type"), HasError>> \o DatabaseName
    \o <<Opens("vector storage interface"), Opens("database"),
         Opens("vector storage client"), Works("listing"), HasError, Finish>>
=============================================================================
