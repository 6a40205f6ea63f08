-------------------------- MODULE CollectionConfigs --------------------------
(* The library's collection configs: collections/<slug>/config.yaml, written  *)
(* by `lies library` (new, modify, delete, bootstrap-all) and by the one-shot *)
(* migration of the wikis' yaml files, and read by the tag resolver of a      *)
(* long-running process through a cache keyed by modification times.          *)
(* library/config_io.py, bootstrap.py, collections_cli.py, registry.py,       *)
(* migrate_collection_configs.py.  save_config is two steps: its check and the *)
(* temporary file, whose name every saver of a slug shares and whose           *)
(* modification time stays the config's, and the os.replace that shows it.     *)
(* The clock ticks between any two writes; mkdir and write share a tick.       *)
EXTENDS Naturals, FiniteSets, FiniteSetsExt

CONSTANTS
    Collections,   \* slugs
    Tags,
    Sources,       \* sources; bootstrap-all writes Placeholder
    Placeholder,
    Kept,          \* collections with mirrors: their directory is never empty
    Yamls,         \* wiki yaml files to migrate, as [stem, name, source, tags,
                   \* words], where words are the description and scope keywords
    MaxClock

VARIABLES
    config,        \* config of each collection that has one
    stamp,         \* modification time of each config file
    drafts,        \* config.yaml.tmp of each collection that has one: [config, at]
    dirs,          \* collection directories
    rootStamp,     \* modification time of collections/
    clock,
    commands,      \* collections a `lies library` command is saving
    loaded,        \* what a `modify` has loaded and will write back
    cache,         \* the resolver's cache: [key, tags]; key 0 when empty
    looking,       \* key a lookup has computed and not used yet, 0 if none
    seen,          \* configs that stand as they stood when it did
    late,          \* configs shown with a time the cache's key had passed
    yamls, phase, force, parsed, saved,  \* the migration
    yaml,          \* the file whose config it is saving, if any
    touched        \* collections a command saved or deleted since it read them

configVars == <<config, stamp, drafts, dirs, rootStamp, clock, commands, loaded, cache, looking, seen,
                late, yamls, phase, force, parsed, saved, yaml, touched>>
files == <<config, stamp, drafts, dirs, rootStamp, clock, late>>
migrating == <<yamls, phase, force, parsed, saved, yaml>>

\* No command gives a config a description or scope keywords.
Config(s, ts) == [source |-> s, tags |-> ts]
Configured == DOMAIN config
AllTags == UNION {config[c].tags : c \in Configured}
Install(f, c, v) == [x \in DOMAIN f \cup {c} |-> IF x = c THEN v ELSE f[x]]
Without(f, c) == [x \in DOMAIN f \ {c} |-> f[x]]

ConfigInit ==
    /\ config = [c \in {} |-> 0] /\ stamp = config /\ drafts = config
    /\ dirs = Kept /\ rootStamp = 1 /\ clock = 1 /\ commands = {} /\ loaded = <<>>
    /\ cache = [key |-> 0, tags |-> {}] /\ looking = 0 /\ seen = {} /\ late = {}
    /\ yamls \in SUBSET Yamls /\ phase = "idle" /\ force = FALSE /\ parsed = {} /\ saved = {}
    /\ yaml = {} /\ touched = {}

\* save_config once its check passed: the directory if it is missing, and the
\* temporary file, over whatever another saver has left there.
Writes(c, v) ==
    /\ clock < MaxClock /\ clock' = clock + 1
    /\ dirs' = dirs \cup {c} /\ rootStamp' = IF c \in dirs THEN rootStamp ELSE clock'
    /\ drafts' = Install(drafts, c, [config |-> v, at |-> clock'])
    /\ UNCHANGED <<config, stamp, late, seen>>

\* Its os.replace, of the file that is there by then.
Replaces(c) ==
    /\ c \in DOMAIN drafts /\ drafts' = Without(drafts, c)
    /\ config' = Install(config, c, drafts[c].config)
    /\ stamp' = Install(stamp, c, drafts[c].at)
    /\ late' = IF drafts[c].at <= cache.key THEN late \cup {c} ELSE late \ {c}
    /\ seen' = seen \ {c}
    /\ UNCHANGED <<dirs, rootStamp, clock>>

\* It fails, or its process dies; the temporary file may be removed, whoever's it is.
ReplaceFails(c) ==
    /\ drafts' \in {drafts, Without(drafts, c)}
    /\ UNCHANGED <<config, stamp, dirs, rootStamp, clock, late, seen>>

\* During a migration, a command changes a collection.
Touch(c) == touched' = IF phase = "save" THEN touched \cup {c} ELSE {}

\* A command's save; one at a time for each collection.
CommandSaves(c, v) ==
    /\ c \notin commands /\ Writes(c, v)
    /\ commands' = commands \cup {c} /\ Touch(c)
    /\ UNCHANGED <<cache, looking, migrating>>
CommandReplaces(c) ==
    /\ c \in commands /\ commands' = commands \ {c}
    /\ Replaces(c) \/ ReplaceFails(c)
    /\ Touch(c)
    /\ UNCHANGED <<cache, looking, migrating, loaded>>

\* `library new` of a collection that has no config.
New(c, s) ==
    /\ c \notin Configured /\ CommandSaves(c, Config(s, {})) /\ UNCHANGED loaded

\* bootstrap-all: a placeholder for every directory without a config.
Bootstrap(c) ==
    /\ c \in dirs \ Configured
    /\ CommandSaves(c, Config(Placeholder, {})) /\ UNCHANGED loaded

\* `library modify`, and `library new --tag`, load a config and write it back
\* changed.
LoadForModify(c) ==
    /\ loaded = <<>> /\ c \in Configured
    /\ loaded' = <<c, config[c]>>
    /\ UNCHANGED <<files, seen, commands, touched, cache, looking, migrating>>
Modify(ts) ==
    /\ loaded # <<>> /\ CommandSaves(loaded[1], [loaded[2] EXCEPT !.tags = ts])
    /\ loaded' = <<>>

\* `library delete`: the config goes, the directory only if it is empty then.
Delete(c) ==
    /\ c \in Configured /\ clock < MaxClock /\ clock' = clock + 1
    /\ config' = Without(config, c) /\ stamp' = Without(stamp, c)
    /\ seen' = seen \ {c} /\ late' = late \ {c} /\ Touch(c)
    /\ IF c \in Kept \cup DOMAIN drafts THEN UNCHANGED <<dirs, rootStamp>>
       ELSE dirs' = dirs \ {c} /\ rootStamp' = clock'
    /\ UNCHANGED <<drafts, commands, loaded, cache, looking, migrating>>

\* The newest time of the directory and of its configs.
AggregateKey == Max({rootStamp} \cup {stamp[c] : c \in Configured})

\* library_collection_tags: the key first, then the cached tags or a walk.
LookupKey ==
    /\ looking = 0 /\ looking' = AggregateKey /\ seen' = Configured
    /\ UNCHANGED <<files, commands, loaded, touched, cache, migrating>>
LookupTags ==
    /\ looking # 0 /\ looking' = 0 /\ seen' = {}
    /\ IF cache.key = looking THEN UNCHANGED <<cache, late>>
       ELSE cache' = [key |-> looking, tags |-> AllTags] /\ late' = {}
    /\ UNCHANGED <<config, stamp, drafts, dirs, rootStamp, clock, commands, loaded, touched, migrating>>

-------------------------------------------------------------------------------
\* migrate_collection_configs.  Plan and first phase: two files of one stem, or
\* a stem the library has as a slug, abort an unforced run before anything is
\* written.
Reads ==
    /\ phase = "idle" /\ yamls # {}
    /\ force' \in BOOLEAN
    /\ \A y, z \in yamls : y.stem = z.stem => y = z
    /\ force' \/ \A y \in yamls : y.stem \notin Configured
    /\ parsed' = yamls /\ phase' = "save"
    /\ UNCHANGED <<files, seen, commands, loaded, touched, cache, looking, yamls, saved, yaml>>

\* The run is over, with the files before this one saved.
RunEnds == /\ phase' = "idle" /\ force' = FALSE
           /\ parsed' = {} /\ saved' = {} /\ yaml' = {} /\ touched' = {}
RunGoesOn == UNCHANGED <<phase, force, touched>>

\* The config a file becomes: it is saved under the name the file gives, and the
\* description and the scope keywords are left out.
Carried(y) == Config(y.source, y.tags)

\* A name the library has by now ends an unforced run.
SaveRefused(y) == y.name \in Configured /\ ~force /\ RunEnds

SaveYaml ==
    /\ phase = "save" /\ yaml = {}
    /\ \E y \in parsed \ saved :
          \/ SaveRefused(y) /\ UNCHANGED <<files, seen>>
          \/ /\ y.name \in Configured => force
             /\ Writes(y.name, Carried(y)) /\ yaml' = {y}
             /\ RunGoesOn /\ UNCHANGED <<parsed, saved>>
    /\ UNCHANGED <<commands, loaded, cache, looking, yamls>>

ReplaceYaml ==
    /\ \E y \in yaml :
          \/ /\ Replaces(y.name) /\ saved' = saved \cup {y} /\ yaml' = {}
             /\ RunGoesOn /\ UNCHANGED parsed
          \/ ReplaceFails(y.name) /\ RunEnds
    /\ UNCHANGED <<commands, loaded, cache, looking, yamls>>

\* Only when all are saved, the wiki files go, one by one.
Unlink ==
    /\ phase = "save" /\ parsed \subseteq saved
    /\ \E y \in parsed :
          /\ yamls' = yamls \ {y}
          /\ IF parsed = {y} THEN RunEnds
             ELSE parsed' = parsed \ {y} /\ RunGoesOn /\ UNCHANGED <<saved, yaml>>
    /\ UNCHANGED <<files, seen, commands, loaded, cache, looking>>

\* The process dies; nothing cleans up after it.
MigratorDies ==
    /\ phase = "save" /\ RunEnds
    /\ UNCHANGED <<files, seen, commands, loaded, cache, looking, yamls>>

ConfigNext ==
    \/ \E c \in Collections :
          \/ \E s \in Sources : New(c, s)
          \/ Bootstrap(c) \/ CommandReplaces(c) \/ LoadForModify(c) \/ Delete(c)
    \/ \E ts \in SUBSET Tags : Modify(ts)
    \/ LookupKey \/ LookupTags
    \/ Reads \/ SaveYaml \/ ReplaceYaml \/ Unlink \/ MigratorDies

Saved == [source : Sources \cup {Placeholder}, tags : SUBSET Tags]

ConfigTypeOK ==
    /\ Configured \cup DOMAIN drafts \subseteq dirs /\ dirs \subseteq Collections
    /\ DOMAIN stamp = Configured /\ commands \subseteq Collections
    /\ seen \cup late \subseteq Configured
    /\ \A c \in Configured : config[c] \in Saved
    /\ \A c \in DOMAIN drafts : drafts[c].config \in Saved
    /\ saved \cup yamls \subseteq Yamls /\ yaml \subseteq parsed /\ parsed \subseteq yamls
    /\ cache.tags \subseteq Tags

\* The resolver never refuses a tag some config declares: a lookup's answer has
\* every tag of a config that was there when its key was computed and still is
\* (library_collection_tags; a long-running server is not restarted).  It may
\* miss one of a config that was shown with a modification time older than the
\* key the cache already had, until the next change.
NoTagMissing ==
    [][looking # 0 /\ looking' = 0 =>
          UNION {config[c].tags : c \in seen \ late} \subseteq cache'.tags]_configVars

\* A wiki's yaml file is removed only by a run that saved it, and while the
\* library has its source and tags (not its words), or those of a file of the run
\* with the same name, or a command changed that collection meanwhile - whatever
\* appears there between the plan and the write, and whoever's temporary file is
\* installed.
YamlSurvives ==
    [][\A y \in yamls \ yamls' :
          /\ y \in saved
          /\ \/ y.name \in touched
             \/ \E z \in saved : /\ z.name = y.name /\ y.name \in Configured
                                 /\ config[y.name] = Carried(z)]_configVars
=============================================================================
