------------------------------ MODULE Programs ------------------------------
(***************************************************************************)
(* The table of the 26 programs and what is said about each: the option    *)
(* sets it refuses, and the failures with which it still returns 0.        *)
(***************************************************************************)
EXTENDS StoragePrograms, AnalyzerPrograms, DocumentPrograms

Scripts == [
    strusCreate |-> CreateLine \o CreateWork,
    strusDestroy |-> DestroyLine \o DestroyWork,
    strusDeleteDocument |-> DeleteDocumentLine \o DeleteDocumentWork,
    strusCheckStorage |-> CheckStorageLine \o CheckStorageWork,
    strusDumpStorage |-> DumpStorageLine \o DumpStorageWork,
    strusAlterMetaData |-> AlterMetaDataLine \o AlterMetaDataWork,
    strusUpdateStorage |-> UpdateStorageLine \o UpdateStorageWork,
    strusCreateVectorStorage |-> CreateVectorStorageLine \o CreateVectorStorageWork,
    strusDumpStatistics |-> DumpStatisticsLine \o DumpStatisticsWork,
    strusUpdateStorageCalcStatistics |-> CalcStatisticsLine \o CalcStatisticsWork,
    strusHelp |-> HelpLine \o HelpWork,
    strusAnalyzePhrase |-> AnalyzePhraseLine \o AnalyzePhraseWork,
    strusSegment |-> SegmentLine \o SegmentWork,
    strusAnalyze |-> AnalyzeLine \o AnalyzeWork,
    strusPatternSerialize |-> PatternSerializeLine \o PatternSerializeWork,
    strusAnalyzeQuery |-> AnalyzeQueryLine \o AnalyzeQueryWork,
    strusQuery |-> QueryLine \o QueryWork,
    strusInspect |-> InspectLine \o InspectWork,
    strusInspectVectorStorage |-> InspectVectorStorageLine \o InspectVectorStorageWork,
    strusInsert |-> InsertLine \o InsertWork,
    strusCheckInsert |-> CheckInsertLine \o CheckInsertWork,
    strusGenerateKeyMap |-> GenerateKeyMapLine \o GenerateKeyMapWork,
    strusTagMarkup |-> TagMarkupLine \o TagMarkupWork,
    strusMergeMarkup |-> MergeMarkupLine \o MergeMarkupWork,
    strusPosTagger |-> PosTaggerLine \o PosTaggerWork,
    strusPatternMatcher |-> PatternMatcherLine \o PatternMatcherWork]

-----------------------------------------------------------------------------
(* What the properties expect of each program.                             *)

LocalModules == {{"rpc", "module"}, {"rpc", "moduledir"}}
LocalResources == LocalModules \cup {{"rpc", "resourcedir"}}
LocalStorage == {{"rpc", "storage"}}
OneStorage == {{"storage", "configfile"}}
OneVectorStorage == {{"config", "configfile"}}
TwoUpdates == {{"metadata", "attribute"}, {"metadata", "useraccess"},
               {"attribute", "useraccess"}}

(* The contradictions each program refuses.  Not refused, although         *)
(* sister programs do: rpc with modules in strusDeleteDocument,            *)
(* strusUpdateStorage and strusUpdateStorageCalcStatistics, rpc with       *)
(* resourcedir in strusCheckInsert and strusQuery, rpc with storage or     *)
(* configfile in strusInsert and strusQuery.                               *)
Contradictions == [p \in DOMAIN Scripts |->
    CASE p \in {"strusCreate", "strusDestroy", "strusAlterMetaData"} -> OneStorage
      [] p \in {"strusCreateVectorStorage", "strusInspectVectorStorage"} ->
             OneVectorStorage
      [] p \in {"strusDeleteDocument", "strusUpdateStorageCalcStatistics"} ->
             LocalStorage
      [] p = "strusUpdateStorage" -> LocalStorage \cup TwoUpdates
      [] p \in {"strusCheckStorage", "strusDumpStorage", "strusDumpStatistics",
                "strusInspect"} -> LocalModules \cup LocalStorage
      [] p \in {"strusHelp", "strusPatternSerialize", "strusAnalyzeQuery",
                "strusTagMarkup"} -> LocalResources
      [] p = "strusAnalyze" -> LocalResources \cup
             {{"dump", "structlist"}, {"dump", "fieldtree"}, {"structlist", "fieldtree"}}
      [] p = "strusPatternMatcher" -> LocalResources \cup {{"ext", "filelist"}}
      [] p = "strusPosTagger" -> LocalResources \cup
             {{"posinp", "output"}, {"posinp", "erroutput"}}
      [] p = "strusInsert" -> LocalResources \cup OneStorage
      [] p = "strusQuery" -> LocalModules \cup OneStorage
      [] p = "strusCheckInsert" -> LocalModules \cup LocalStorage \cup OneStorage
                                   \cup {{"rpc", "configfile"}}
      [] OTHER -> {}]

(* strusUpdateStorage looks at the kind of the update with the storage     *)
(* open.                                                                   *)
LateRefusals == [p \in DOMAIN Scripts |->
    IF p = "strusUpdateStorage" THEN TwoUpdates ELSE {}]

(* The failures a program may have had and return 0: those of single files *)
(* and transactions, which the threads print, and those that main prints   *)
(* or does not look for.                                                   *)
Tolerated == [p \in DOMAIN Scripts |->
    {"vector storage module", "pattern matcher module", "program of a class"} \cup
    CASE p = "strusInsert" -> {"commits"}
      [] p = "strusUpdateStorage" -> {"updates"}
      [] p = "strusAnalyze" -> {"analysis", "analyzer programs"}
      [] p = "strusCheckInsert" -> {"checks"}
      [] p = "strusGenerateKeyMap" -> {"key map"}
      [] p = "strusTagMarkup" -> {"tags"}
      [] p = "strusMergeMarkup" -> {"merge"}
      [] p = "strusPosTagger" -> {"tagging"}
      [] p = "strusPatternMatcher" -> {"matches"}
      [] OTHER -> {}]

(* The failures that no test of the error buffer meets between the call    *)
(* and the work of the program.                                            *)
UnlookedFailures == [p \in DOMAIN Scripts |->
    CASE p = "strusCreate" -> {"database name"}
      [] p = "strusDeleteDocument" -> {"document"}
      [] p = "strusAlterMetaData" -> {"command"}
      [] p \in {"strusInsert", "strusCheckInsert", "strusGenerateKeyMap",
                "strusAnalyze"} -> {"analyzer programs"}
      [] p = "strusSegment" -> {"expression"}
      [] OTHER -> {}]
=============================================================================
