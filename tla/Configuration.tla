--------------------------- MODULE Configuration ---------------------------
(***************************************************************************)
(* load_config of gclaw-config: find config.json, read it, decrypt its     *)
(* keys and check it, beside the assistant G, which owns the file and may  *)
(* write, move or delete it at any moment.  A file is what load_config     *)
(* decides by; a key in it has its plain text and, unless nobody made one, *)
(* the Fernet token that G on some machine made of a secret.               *)
(***************************************************************************)
EXTENDS Fernet

CONSTANTS
    Places,     \* where config.json is looked for, in order
    Named,      \* the path a caller may give
    Machines,   \* names and users that make a key
    Here,       \* those of this machine
    Nobody,     \* made no token
    Texts,      \* plain texts and secrets
    KeyNames,   \* the keys of a file: Main, and one of each provider
    Main,       \* the key at the top
    Contents,   \* what G may write
    Written,    \* what it may have written before
    Torn,       \* a file that does not parse, one half written for example
    Absent,     \* no file
    MaxWrites   \* bound on what G does to the files

Paths == {Places[i] : i \in DOMAIN Places} \cup {Named}

(* G is not part of this repository, which says two things of the key it   *)
(* signs with: the first half ("Fernet spec") or the whole ("matches       *)
(* Python").                                                               *)
Signings == {"half", "whole"}

SavedKey ==
    [plain : Texts, secret : Texts, by : Machines \cup {Nobody}, signing : Signings, salt : Nat]

ASSUME ConfigurationAssumption ==
    /\ Places \in Seq(Paths) /\ \A i, j \in DOMAIN Places : Places[i] = Places[j] => i = j
    /\ Here \in Machines /\ Nobody \notin Machines
    /\ Texts \subseteq Seq(Nat)
    /\ Main \in KeyNames
    /\ \A c \in Contents : c.complete \in BOOLEAN /\ c.keys \in [KeyNames -> SavedKey]
    /\ Torn \notin Contents /\ Absent \notin Contents /\ Torn # Absent
    /\ Written \subseteq Contents
    /\ MaxWrites \in Nat

VARIABLES
    files,    \* what is there at each path
    stage,    \* load_config: "idle", "find", "read", "decrypt", "ok" or "err"
    paths,    \* the paths it tries
    at,       \* the index of the one it is at
    keys,     \* the keys in memory
    todo,     \* the keys it has not come to
    saved,    \* the file as it was read
    held,     \* paths that have had a file ever since the call
    writes    \* what G has done

configVars == <<files, stage, paths, at, keys, todo, saved, held, writes>>

NoKeys == [n \in KeyNames |-> <<>>]

ConfigInit ==
    /\ files \in [Paths -> Written \cup {Absent}]
    /\ stage = "idle"
    /\ paths = Places /\ at = 1
    /\ keys = NoKeys /\ todo = {}
    /\ saved = Torn
    /\ held = {}
    /\ writes = 0

-----------------------------------------------------------------------------
BackwardSearch(explicit) ==  \* faulty: the fallback goes before G_CONFIG
    IF explicit THEN <<Named>> ELSE [i \in DOMAIN Places |-> Places[Len(Places) + 1 - i]]

(* A path that is given is the only one tried. *)
SearchPath(explicit) == IF explicit THEN <<Named>> ELSE Places

LoadConfig(explicit) ==
    /\ stage = "idle"
    /\ stage' = "find"
    /\ paths' = SearchPath(explicit)
    /\ at' = 1
    /\ held' = {p \in Paths : files[p] # Absent}
    /\ UNCHANGED <<files, keys, todo, saved, writes>>

(* exists() of one path after the other. *)
Exists ==
    /\ stage = "find" /\ at <= Len(paths)
    /\ files[paths[at]] # Absent
    /\ stage' = "read"
    /\ UNCHANGED <<files, paths, at, keys, todo, saved, held, writes>>

NotThere ==
    /\ stage = "find" /\ at <= Len(paths)
    /\ files[paths[at]] = Absent
    /\ at' = at + 1
    /\ UNCHANGED <<files, stage, paths, keys, todo, saved, held, writes>>

(* Nothing was found, or what was is gone again, or it does not parse. *)
CannotRead ==
    /\ \/ stage = "find" /\ at > Len(paths)
       \/ stage = "read" /\ files[paths[at]] \in {Absent, Torn}
    /\ stage' = "err"
    /\ UNCHANGED <<files, paths, at, keys, todo, saved, held, writes>>

ReadFile ==
    /\ stage = "read"
    /\ files[paths[at]] \notin {Absent, Torn}
    /\ stage' = "decrypt"
    /\ saved' = files[paths[at]]
    /\ keys' = [n \in KeyNames |-> saved'.keys[n].plain]
    /\ todo' = KeyNames
    /\ UNCHANGED <<files, paths, at, held, writes>>

(* What G saved. *)
Token(k) ==
    LET raw == DeriveKey(k.by)
        signing == IF k.signing = "half" THEN <<raw[1]>> ELSE raw
    IN IF k.by = Nobody THEN <<>> ELSE Sealed(signing, <<raw[2]>>, k.secret, k.salt)

RefusedKeyEmptied(n) ==  \* faulty: a token that cannot be decrypted yields an empty key
    /\ stage = "decrypt" /\ n \in todo
    /\ Main \in todo => n = Main
    /\ LET token == Token(saved.keys[n])
           text == DecryptValue(DeriveKey(Here), token)
       IN keys' = IF token = <<>> THEN keys
                  ELSE [keys EXCEPT ![n] = IF text = Failed THEN <<>> ELSE text[1]]
    /\ todo' = todo \ {n}
    /\ UNCHANGED <<files, stage, paths, at, saved, held, writes>>

(* Main first, then the providers in the order of a HashMap, which is any. *)
(* A token that cannot be decrypted is warned about.                       *)
Decrypt(n) ==
    /\ stage = "decrypt" /\ n \in todo
    /\ Main \in todo => n = Main
    /\ LET token == Token(saved.keys[n])
           text == DecryptValue(DeriveKey(Here), token)
       IN keys' = IF token = <<>> \/ text = Failed THEN keys ELSE [keys EXCEPT ![n] = text[1]]
    /\ todo' = todo \ {n}
    /\ UNCHANGED <<files, stage, paths, at, saved, held, writes>>

(* username, ai_name and provider. *)
Validate ==
    /\ stage = "decrypt" /\ todo = {}
    /\ stage' = IF saved.complete THEN "ok" ELSE "err"
    /\ UNCHANGED <<files, paths, at, keys, todo, saved, held, writes>>

(* The caller is done with what was returned. *)
Drop ==
    /\ stage \in {"ok", "err"}
    /\ stage' = "idle"
    /\ paths' = Places /\ at' = 1
    /\ keys' = NoKeys
    /\ saved' = Torn /\ held' = {}
    /\ UNCHANGED <<files, todo, writes>>

Loads ==
    \/ Exists \/ NotThere \/ CannotRead \/ ReadFile
    \/ (\E n \in KeyNames : Decrypt(n)) \/ Validate

(* G writes a file, in one go or not, or takes one away. *)
GWrites ==
    /\ writes < MaxWrites
    /\ writes' = writes + 1
    /\ \E p \in Paths, c \in Contents \cup {Torn, Absent} :
         /\ files' = [files EXCEPT ![p] = c]
         /\ held' = IF c = Absent THEN held \ {p} ELSE held
    /\ UNCHANGED <<stage, paths, at, keys, todo, saved>>

ConfigNext == (\E explicit \in BOOLEAN : LoadConfig(explicit)) \/ Loads \/ Drop \/ GWrites

ConfigSpec == ConfigInit /\ [][ConfigNext]_configVars
=============================================================================
