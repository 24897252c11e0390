------------------------------- MODULE Config -------------------------------
(***************************************************************************)
(* The configuration file (internal/config): references to the environment *)
(* are expanded, what is left out is inherited or defaulted, and the       *)
(* result is validated.  Nothing here has state: Load is a function of the *)
(* document and of the environment it is read in.                          *)
(*                                                                         *)
(* A document is a record with the fields of the source's structs; an      *)
(* absent block or pointer is None and an absent text is "".  Warnings     *)
(* change nothing that a command does and are left out; an error is the    *)
(* field it is about.  Fractions are counted in hundredths.                *)
(***************************************************************************)
EXTENDS Integers, Sequences, FiniteSets, SequencesExt, Optional

CONSTANTS
    References,  \* texts with a ${...}: what each one refers to
    Names,       \* the names that nameRE accepts
    Idents,      \* the prefixes that identRE accepts
    Crons,       \* the schedules that the cron parser accepts
    Recipients,  \* the age recipients that parse
    Globs,       \* the patterns that path.Match accepts
    URLs,        \* the texts that parse as a URL: scheme and host
    Addresses    \* the texts that are host:port

Engines == {"postgres", "mysql", "mariadb", "mongodb"}

-----------------------------------------------------------------------------
(* Interpolation (interp.go).  env.vars are the variables that are set,    *)
(* env.files the files that can be read, env.allowUnset the flag.          *)

\* What a reference stands for, or None.  A variable that is set to nothing
\* is set: the fallback is for one that is not.
resolve(ref, env) ==
    IF ref.file # None
    THEN IF ref.file \in DOMAIN env.files THEN env.files[ref.file] ELSE None
    ELSE IF ref.name = "" THEN None
    ELSE IF ref.name \in DOMAIN env.vars THEN env.vars[ref.name]
    ELSE ref.fallback

Unresolved(s, env) == s \in DOMAIN References /\ resolve(References[s], env) = None

expand(s, env) ==
    IF s \notin DOMAIN References THEN s
    ELSE IF ~Unresolved(s, env) THEN resolve(References[s], env)
    ELSE IF env.allowUnset THEN "" ELSE s

\* The kinds of the fields.  A level is a number in one struct and a text in
\* another, and no document puts a reference there.
Text == {"name", "provider", "bucket", "endpoint", "region", "accessKeyID", "secretAccessKey",
         "engine", "dsn", "uri", "destination", "schedule", "onNonInnoDB", "into", "type", "sql",
         "databasePrefix", "url", "secret", "template", "listen", "mode", "token", "algo",
         "passphrase", "spool", "onOverlap", "rowEstimate"}
Texts == {"recipients", "notify", "events", "excludeTableData"}
Struct == {"defaults", "options", "verify", "compression", "encryption", "server", "auth"}
Structs == {"destinations", "targets", "verifyTargets", "notifiers", "assertions"}

Leaf(v, field, env) ==
    CASE v = None -> v
      [] field \in Text -> expand(v, env)
      [] field \in Texts -> [i \in DOMAIN v |-> expand(v[i], env)]
      [] OTHER -> v

Inside(v, field, Op(_, _)) ==
    CASE v = None -> v
      [] field \in Struct -> [f \in DOMAIN v |-> Op(v[f], f)]
      [] field \in Structs -> [i \in DOMAIN v |-> [f \in DOMAIN v[i] |-> Op(v[i][f], f)]]
      [] OTHER -> Op(v, field)

\* Every text of a value is expanded, wherever it stands: the deepest one is
\* in an assertion of the verify block of a target.
walk(doc, env) ==
    LET block(v, field) == Inside(v, field, LAMBDA w, f : Leaf(w, f, env))
        element(v, field) == Inside(v, field, block)
    IN  [f \in DOMAIN doc |-> Inside(doc[f], f, element)]

\* A reference that could not be resolved is left standing.
interpolate(doc, env) ==
    LET cfg == walk(doc, env)
    IN  [cfg |-> cfg,
         errors |-> IF cfg # walk(doc, [env EXCEPT !.allowUnset = TRUE]) THEN {"reference"} ELSE {}]

-----------------------------------------------------------------------------
(* Defaults (defaults.go).  A block that a target leaves out is the one of *)
(* the defaults as a whole; a block that it has is its own as a whole.     *)

Or(v, absent, otherwise) == IF v = absent THEN otherwise ELSE v

builtinCompression == [algo |-> "zstd", level |-> 3]
defaultLevels == [algo \in {"zstd", "gzip"} |-> IF algo = "zstd" THEN 3 ELSE 6]

CompressionDefaults(c) ==
    LET algo == Or(c.algo, "", builtinCompression.algo)
    IN  [algo |-> algo,
         level |-> IF c.level = 0 /\ algo \in DOMAIN defaultLevels THEN defaultLevels[algo] ELSE c.level]

RetentionDefaults(r) ==
    IF r = None THEN None
    ELSE [r EXCEPT !.minKeep = Or(@, 0, 1),
                   !.monthly = IF @ # None /\ @.on = 0 THEN [@ EXCEPT !.on = 1] ELSE @]

VerifyDefaults(v) == IF v = None THEN None ELSE [v EXCEPT !.level = Or(@, "", "integrity")]

applyDefaultsBlock(d) ==
    [d EXCEPT !.compression = CompressionDefaults(Or(@, None, builtinCompression)),
              !.timeout = Or(@, None, 4), !.spool = Or(@, "", "none"),
              !.onOverlap = Or(@, "", "skip"), !.rowEstimate = Or(@, "", "estimate"),
              !.retention = RetentionDefaults(@)]

DestinationDefaults(d) ==
    [d EXCEPT !.region = IF d.provider = "r2" THEN Or(@, "", "auto") ELSE @]

\* Mutant: a target without an encryption block is one that opted out.
TargetDefaultsOptOut(t, d) ==
    [t EXCEPT !.encryption = Or(@, None, [mode |-> "none", recipients |-> <<>>, passphrase |-> ""]),
              !.compression = CompressionDefaults(Or(@, None, d.compression)),
              !.retention = RetentionDefaults(Or(@, None, d.retention)),
              !.timeout = Or(@, None, d.timeout), !.notify = Or(@, None, d.notify),
              !.spool = Or(@, "", d.spool), !.onOverlap = Or(@, "", d.onOverlap),
              !.rowEstimate = Or(@, "", d.rowEstimate), !.verify = VerifyDefaults(@)]

TargetDefaults(t, d) ==
    [t EXCEPT !.compression = CompressionDefaults(Or(@, None, d.compression)),
              !.encryption = Or(@, None, d.encryption),
              !.retention = RetentionDefaults(Or(@, None, d.retention)),
              !.timeout = Or(@, None, d.timeout), !.notify = Or(@, None, d.notify),
              !.spool = Or(@, "", d.spool), !.onOverlap = Or(@, "", d.onOverlap),
              !.rowEstimate = Or(@, "", d.rowEstimate), !.verify = VerifyDefaults(@)]

Each(list, Op(_)) == [i \in DOMAIN list |-> Op(list[i])]

ApplyDefaults(c) ==
    LET d == applyDefaultsBlock(c.defaults)
    IN  [c EXCEPT !.defaults = d,
                  !.destinations = Each(@, DestinationDefaults),
                  !.targets = Each(@, LAMBDA t : TargetDefaults(t, d)),
                  !.verifyTargets = Each(@, LAMBDA v : [v EXCEPT !.maxConcurrent = Or(@, 0, 1)]),
                  !.notifiers = Each(@, LAMBDA n : [n EXCEPT !.type = Or(@, "", "webhook"),
                                                             !.template = Or(@, "", "generic")]),
                  !.server.listen = Or(@, "", ":8080"), !.server.auth.mode = Or(@, "", "token")]
=============================================================================
