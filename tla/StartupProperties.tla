------------------------- MODULE StartupProperties --------------------------
(***************************************************************************)
(* What the start relies on, whatever runs beside it.                      *)
(***************************************************************************)
EXTENDS Startup

(* A token that decrypt_value opens: made on this machine and signed with  *)
(* the whole key.  What config.rs:9 and :137 call Fernet signs with half   *)
(* of it; a key that G saved so, on this machine too, is refused with a    *)
(* warning, although "decrypted to `api_key` in memory" is said of all.    *)
Opens(k) == k.by = Here /\ k.signing = "whole"

(* Each key of a configuration that is returned is decided by its own      *)
(* token alone: the secret, whatever its length, if the token opens, else  *)
(* the plain text of the file.  A token of another machine, or one signed  *)
(* otherwise, spoils neither its own entry nor the ones after it.          *)
EachKeyOnItsOwn ==
    stage = "ok" =>
        \A n \in KeyNames :
            keys[n] = IF Opens(saved.keys[n]) THEN saved.keys[n].secret ELSE saved.keys[n].plain

(* The file that is taken is the first in order, as far as that can be     *)
(* said beside somebody who moves files: no path that has had a file ever  *)
(* since the call is passed over for a later one.                          *)
FirstPlaceWins ==
    stage \in {"read", "decrypt", "ok"} /\ paths # <<Named>> =>
        \A i, j \in DOMAIN Places :
            paths[at] = Places[j] /\ i < j => Places[i] \notin held

(* However often the script is killed, fails and is run again, beside a    *)
(* shell that starts at any moment: a file under its final name, and a     *)
(* model a shell has loaded, is whole unless its transfer was cut short.   *)
WholeUnlessCut ==
    /\ \A f \in Names : disk[f] \in {NoFile, Blocks} \/ f \in cut
    /\ \A i \in DOMAIN loaded : loaded[i] = Blocks \/ Models[i] \in cut

(* "All models downloaded successfully!" is said when every file is there, *)
(* whatever failed in between and in the runs before.                      *)
OkMeansAllThere == exit = "ok" => \A f \in Names : disk[f] # NoFile
=============================================================================
