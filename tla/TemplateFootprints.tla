------------------------- MODULE TemplateFootprints -------------------------
(***************************************************************************)
(* system_ops, template_import and template_sync: what the functions that  *)
(* make and replace templates read and change, in which order.             *)
(*                                                                         *)
(* `in' is the process the function runs in, whose keyed_mutex guards the  *)
(* team's secrets.  A template remembers the key of the bucket it came     *)
(* from as such a secret; one that remembers none has `in' = NoKey.        *)
(***************************************************************************)
EXTENDS EnvFootprints

NoKey == "no key"

(* secret_store: one read-modify-write of the team's file.                 *)
SecretsChanged(in) == Inside(Mutex(in, "secrets"), Changes({<<"secrets", "team">>}))
KeyChanged(in)     == IF in = NoKey THEN <<>> ELSE SecretsChanged(in)

(* The database a template is built in, and its container: one per host.   *)
BuildDatabase == <<"template build", "host">>

-----------------------------------------------------------------------------
(* The parts: a dump becomes the template's database, which is measured    *)
(* and described; files replace its filestore.                             *)

DumpTaken(source)   == Reads({source})
DumpRestored(x)     == Changes({x})
DumpKept(x)         == Changes({x})
TemplateLoaded(x)   == DumpRestored(x) \o DumpKept(x)
MetadataWritten(x)  == Changes({x})
MetadataFinalized(in, x) == KeyChanged(in) \o MetadataWritten(x)

(* A file the template has already is linked to, not copied.               *)
FilestoreCopied(source, x) == Reads({source, x})
FilestoreInstalled(t) == Changes({Template(t)} \cup AllBoxes)

(* The environments mounted on the template are stopped and unmounted,     *)
(* the body works on its files, then they are mounted and started again.   *)
Remounted(t, body) == Changes(AllBoxes) \o body \o Does({Template(t)}, AllBoxes)
FilesReplaced(t)   == Remounted(t, FilestoreInstalled(t))

-----------------------------------------------------------------------------
(* system_ops: templates made of environments and productions.             *)

(* The source is mounted on what it became.                                *)
SourceRemounted(n, t) == Does({Template(t)}, {Box(n), Data(n)})

EnvPublished(in, n, t) ==
    DumpTaken(Data(n)) \o TemplateLoaded(Template(t)) \o FilestoreCopied(Data(n), Template(t))
      \o Remounted(t, BoxChanged(n) \o FilestoreInstalled(t) \o SourceRemounted(n, t))
      \o Reads({Box(n), Code(n)}) \o MetadataFinalized(in, Template(t))
ProdPublished(in, p, t) ==
    DumpTaken(Prod(p)) \o TemplateLoaded(Template(t)) \o FilestoreCopied(Prod(p), Template(t))
      \o FilesReplaced(t) \o MetadataFinalized(in, Template(t))

(* The template does not exist: nothing can be mounted over it.            *)
ProdPublishedFirst(p, t) ==
    DumpTaken(Prod(p)) \o TemplateLoaded(Incoming(t)) \o FilestoreCopied(Prod(p), Incoming(t))
      \o MetadataWritten(Incoming(t))

-----------------------------------------------------------------------------
(* system_ops and template_import: templates made of something else.       *)

(* What is there is removed; Odoo's own modules are installed in a         *)
(* database and a container made for it.                                   *)
TemplateInitialised(x) ==
    Changes({x}) \o Changes({BuildDatabase}) \o Does({BuildDatabase}, {x})
      \o TemplateLoaded(x) \o MetadataWritten(x)

(* A backup of a running Odoo is downloaded, unpacked, then loaded.        *)
TemplateImported(t) ==
    Changes({Incoming(t)}) \o MetadataWritten(Incoming(t)) \o TemplateLoaded(Incoming(t))

(* Files of a bucket, of an archive in one, of the host: what is not in    *)
(* the template x yet is staged.                                           *)
PrefixStaged(t, x)  == Does({x}, {Staging(t)})
ArchiveStaged(t, x) == Does({x}, {Staging(t)})
FilesStaged(t, x)   == Does({x}, {Staging(t)})

(* The database is loaded first, then the files take their places.         *)
Promoted(t, x, placed) ==
    MetadataWritten(x) \o TemplateLoaded(x) \o placed \o MetadataWritten(x)
      \o Changes({Staging(t)})
PrefixImported(in, t) ==
    PrefixStaged(t, Incoming(t)) \o KeyChanged(in)
      \o Promoted(t, Incoming(t), Changes({Incoming(t)}))
PrefixImportedAgain(in, t) ==
    PrefixStaged(t, Template(t)) \o KeyChanged(in) \o Promoted(t, Template(t), FilesReplaced(t))
      \o KeyChanged(in)
ArchiveImportedAgain(in, t) ==
    ArchiveStaged(t, Template(t)) \o KeyChanged(in) \o Promoted(t, Template(t), FilesReplaced(t))
      \o KeyChanged(in)
FilesImportedAgain(t) ==
    FilesStaged(t, Template(t)) \o Promoted(t, Template(t), FilesReplaced(t))

(* Somebody has put files into the template's own directory.               *)
OwnFilesApplied(t) ==
    FilesReplaced(t) \o TemplateLoaded(Template(t)) \o MetadataWritten(Template(t))
TemplateRefreshed(t) == Remounted(t, <<>>)
FilestoreAttached(t) ==
    Does({Metadata(t)}, {Incoming(t)}) \o Awaiting(TeamLock, FilesReplaced(t))
      \o MetadataWritten(Metadata(t))

(* The addons of a wizard's import become local repositories, one by one;  *)
(* this takes no RLock of theirs.                                          *)
AddonsWired(rs) == Changes({<<"repo", r>> : r \in rs})
ImportFinalized(t, rs) ==
    Does({Staging(t)}, {Incoming(t)}) \o FilesReplaced(t) \o MetadataWritten(Template(t))
      \o TemplateLoaded(Template(t)) \o AddonsWired(rs) \o MetadataWritten(Template(t))
      \o Changes({Staging(t)})

-----------------------------------------------------------------------------
(* system_ops: the rest.                                                   *)

TemplateDeleted(in, t) == Changes({Template(t)}) \o KeyChanged(in) \o Changes({Sync(t)})
TemplateRenamed(t, u)  == Changes({Template(t), Template(u), Incoming(u)})
OrphansFound(ns)       == Reads({Data(n) : n \in ns} \cup {Code(n) : n \in ns})
OrphansCleaned(ns)     ==
    OrphansFound(ns) \o Changes({Data(n) : n \in ns} \cup {Code(n) : n \in ns})
OverlaysMounted        == Changes(AllBoxes)

(* template_sync: the files are transferred first, then published.         *)
SyncConfigured(t) == Changes({Sync(t)})
SyncRun(t) ==
    Does({Sync(t)}, {Incoming(t)})
      \o Awaiting(TeamLock, Does({Incoming(t)}, {Template(t)}) \o FilesReplaced(t))
      \o Changes({Sync(t)})

(* Uploads of the import wizard: per staging directory, one at a time.     *)
ChunkUploaded(in, t) == Inside(Mutex(in, "import-staging"), Changes({Staging(t)}))
=============================================================================
