------------------------------- MODULE Stages -------------------------------
(***************************************************************************)
(* The stages a dump goes through on its way to an object and back         *)
(* (internal/pipeline/spec.go, parse.go).  An object is the sequence of    *)
(* layers around the dump, the innermost first; a manifest records them,   *)
(* and that record is all there is to open the object with.                *)
(***************************************************************************)
EXTENDS Validate

\* What a stage is called in a manifest: "zstd:3" is <<"zstd", 3>>.
CompressionString(spec) ==
    IF spec.algo \in {"none", ""} THEN <<"none">> ELSE <<spec.algo, spec.level>>

\* Mutant: both kinds of age encryption are recorded alike.
EncryptionStringShort(spec) == IF spec.mode \in {"age", "passphrase"} THEN "age:x25519" ELSE "none"

EncryptionString(spec) ==
    CASE spec.mode = "age" -> "age:x25519"
      [] spec.mode = "passphrase" -> "age:scrypt"
      [] OTHER -> "none"

\* A level that the compressor refuses stops the pipeline, as do keys that do
\* not parse; no mode at all is the mode none.
SpecValid(spec) ==
    /\ spec.algo \in {"zstd", "gzip", "none", ""}
    /\ \/ spec.mode \in {"none", ""}
       \/ spec.mode = "age" /\ spec.recipients # <<>> /\ ToSet(spec.recipients) \subseteq Recipients
       \/ spec.mode = "passphrase" /\ spec.passphrase # ""

\* The compressor writes into the encryptor.
compressWriter(spec) ==
    IF spec.algo \in {"none", ""} THEN <<>> ELSE <<[stage |-> spec.algo, keys |-> {}]>>

encryptWriter(spec) ==
    CASE spec.mode = "age" -> <<[stage |-> "x25519", keys |-> ToSet(spec.recipients)]>>
      [] spec.mode = "passphrase" -> <<[stage |-> "scrypt", keys |-> {spec.passphrase}]>>
      [] OTHER -> <<>>

writer(spec) ==
    IF SpecValid(spec) /\ (spec.algo = "gzip" => spec.level <= 9)
    THEN compressWriter(spec) \o encryptWriter(spec)
    ELSE None

Plaintext(layers) == \A i \in DOMAIN layers : layers[i].keys = {}

-----------------------------------------------------------------------------

\* What this build does not know, it does not read.
ParseSpec(compression, encryption) ==
    IF \/ compression[1] \notin {"zstd", "gzip", "none"}
       \/ encryption \notin {"age:x25519", "age:scrypt", "none"}
    THEN None
    ELSE [algo |-> compression[1],
          mode |-> CASE encryption = "age:x25519" -> "age"
                     [] encryption = "age:scrypt" -> "passphrase"
                     [] OTHER -> "none"]

\* A layer comes off with one of its keys.
Peel(layers, stage, keys) ==
    IF layers = None \/ layers = <<>> THEN None
    ELSE LET outer == layers[Len(layers)]
         IN  IF outer.stage = stage /\ (outer.keys = {} \/ outer.keys \cap keys # {})
             THEN SubSeq(layers, 1, Len(layers) - 1) ELSE None

decryptReader(spec, layers, keys) ==
    CASE spec.mode = "age" -> Peel(layers, "x25519", keys)
      [] spec.mode = "passphrase" -> Peel(layers, "scrypt", keys)
      [] OTHER -> layers

decompressReader(spec, layers) ==
    IF spec.algo = "none" \/ layers = None THEN layers ELSE Peel(layers, spec.algo, {})

Reader(spec, layers, keys) == decompressReader(spec, decryptReader(spec, layers, keys))
=============================================================================
