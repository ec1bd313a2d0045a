-------------------------- MODULE StoragePrograms --------------------------
(***************************************************************************)
(* The mains of the programs that work on a storage as a whole.  <P>Line   *)
(* is main of strus<P> up to the return behind the usage, <P>Work the rest.*)
(***************************************************************************)
EXTENDS Stages

CreateLine ==
    Parse \o LoadModules \o Information
    \o <<NofArgs(0, 0, 1), ReadConfigFile, OneConfig("storage", 10003),
         SomeConfig("storage", 10004), Describes, PrintUsage>>
(* The storage exists when the error of line 262 is found at line 273.     *)
CreateWork ==
    Tracing \o StorageBuilder \o Proxies
    \o <<HasError, Notes("database name"), Opens("database"),
         Opens("storage interface"), Produces("storage"), HasError, Finish>>

DestroyLine ==
    Parse \o LoadModules \o Information
    \o <<NofArgs(0, 0, 1), ReadConfigFile, OneConfig("storage", 10003),
         SomeConfig("storage", 10004), Describes, PrintUsage>>
DestroyWork ==
    Tracing \o <<HasError>> \o StorageBuilder \o Proxies \o DatabaseName
    \o <<Opens("database"), Produces("removal"), HasError, Finish>>

DeleteDocumentLine ==
    Parse \o LoadModules \o Information
    \o <<NofArgs(1, Many, 1), Without("rpc", Describes), PrintUsage>>
(* One document that can't be deleted does not stop the commit; what the   *)
(* commit returns is not looked at, only the error buffer.                 *)
DeleteDocumentWork ==
    Tracing \o <<Exclusive("storage", "rpc"), HasError>> \o StorageBuilder
    \o <<Opens("storage client"), Assumes("transaction"),
         Notes("document"), Attempts("deletions"), HasError, Finish>>

CheckStorageLine ==
    Parse \o LoadModulesLocally \o Information
    \o <<NofArgs(0, 0, 1), Without("rpc", Describes), PrintUsage>>
(* A storage with faults is told on stderr; the program ends with 0.       *)
CheckStorageWork ==
    Tracing \o <<Exclusive("storage", "rpc")>> \o StorageBuilder \o Proxies
    \o <<HasError,
         With("exists", Opens("database")),
         With("exists", Attempts("answer")),
         Without("exists", Opens("storage client")),
         Without("exists", Attempts("verdict")),
         HasError, Finish>>

DumpStorageLine ==
    Parse \o LoadModulesLocally \o Information
    \o <<NofArgs(0, 0, 1), Without("rpc", Describes), PrintUsage>>
DumpStorageWork ==
    <<Exclusive("storage", "rpc")>> \o Tracing \o StorageBuilder \o Proxies
    \o <<HasError>> \o DatabaseName
    \o <<With("blocksizes", Assumes("database cursor")),
         Without("blocksizes", Opens("storage client")),
         Without("blocksizes", Throws("dump")),
         InPortions("dump"), HasError, Finish>>

AlterMetaDataLine ==
    Parse \o LoadModules \o Information
    \o <<NofArgs(1, Many, 1), ReadConfigFile, OneConfig("storage", 10003),
         SomeConfig("storage", 10004), Describes, PrintUsage>>
(* All commands are parsed before the storage is touched, and all go into  *)
(* one transaction.                                                        *)
AlterMetaDataWork ==
    Tracing \o <<HasError, Throws("commands")>> \o StorageBuilder \o Proxies
    \o <<Opens("storage client"), Throws("transaction"), Throws("table update"),
         Notes("command"), Produces("metadata table"), HasError, Finish>>

UpdateStorageLine ==
    Parse \o LoadModules \o Information
    \o <<NofArgs(1, Many, 1), NofArgs(0, 1, 2), Without("rpc", Describes), PrintUsage>>
(* The kind of the update is determined with the storage open.  If at      *)
(* least one update was made, the error buffer is not looked at.           *)
UpdateStorageWork ==
    Tracing \o <<With("logerror", Throws("log file")), HasError,
                 Exclusive("storage", "rpc")>>
    \o StorageBuilder
    \o <<Opens("storage client"), With("mapattribute", Throws("document map")),
         Exclusive("metadata", "attribute"), Exclusive("metadata", "useraccess"),
         Exclusive("attribute", "useraccess"),
         Without("metadata", Without("attribute", Without("useraccess",
             Do("refuse", "no update operation")))),
         InPortions("updates"), Do("testnone", "nofUpdates"), Finish>>

CreateVectorStorageLine ==
    Parse \o LoadModules \o <<Reports("vector storage module")>> \o Information
    \o <<NofArgs(0, 0, 2), ReadConfigFile, OneConfig("config", 3),
         Describes, PrintUsage>>
CreateVectorStorageWork ==
    Tracing \o StorageBuilder \o Proxies
    \o <<With("separator", Throws("separator")), HasError,
         Notes("storage type"), HasError>> \o DatabaseName
    \o <<Opens("vector storage interface"), Opens("database"),
         Produces("storage"), Opens("vector storage client"),
         With("file", Works("vectors")), HasError, Finish>>

DumpStatisticsLine ==
    Parse \o LoadModulesLocally \o Information
    \o <<NofArgs(0, 1, 1), NofArgs(1, Many, 1), Without("rpc", Describes),
         PrintUsage>>
(* The file is opened for appending: what was written before stays.        *)
DumpStatisticsWork ==
    <<Exclusive("storage", "rpc")>> \o Tracing \o StorageBuilder \o Proxies
    \o <<HasError, Opens("storage client"), Throws("statistics iterator"),
         Throws("output file"), Works("statistics"), HasError, Finish>>

CalcStatisticsLine ==
    Parse \o LoadModules \o Information
    \o <<NofArgs(3, Many, 1), NofArgs(0, 4, 2), Without("rpc", Describes), PrintUsage>>
(* Both loops are over the values of --storage: without one, as always     *)
(* with --rpc, there is nothing to do.                                     *)
CalcStatisticsWork ==
    Tracing \o <<Exclusive("storage", "rpc"), HasError>> \o StorageBuilder
    \o <<With("storage", Opens("storage clients")),
         With("storage", Throws("df map")),
         Throws("function parser"), Throws("functions"), Throws("instances"),
         With("storage", Works("statistics")), HasError, Finish>>
=============================================================================
