---------------------------- MODULE VolumeAccess ----------------------------
(***************************************************************************)
(* What the open, unlock, close and set calls of libluksde promise about   *)
(* access to the data of an encrypted volume, without saying how a key is  *)
(* looked for: a volume is unlocked only with its own master key, a master *)
(* key is supplied by the application or taken from a key slot that the    *)
(* password in hand opens, and closing a volume gives both up.             *)
(***************************************************************************)
CONSTANTS
    Volumes, NoVolume,
    Keys, NoKey,
    MasterKeyOf,        \* the key each volume is encrypted with
    Passwords, NoPassword,
    OpensSlotOf(_, _)   \* the password opens an enabled slot of the volume

VARIABLES
    volume,             \* the volume that is open
    unlocked,           \* its data can be decrypted
    key,                \* the master key in hand
    password            \* the password in hand

vars == <<volume, unlocked, key, password>>

Init ==
    /\ volume = NoVolume
    /\ unlocked = FALSE
    /\ key = NoKey
    /\ password = NoPassword

\* The application replaces the key or the password; a password that cannot
\* be used is dropped together with the one it was to replace.
SupplyKey ==
    /\ key' \in Keys
    /\ UNCHANGED <<volume, unlocked, password>>

SupplyPassword ==
    /\ password' \in Passwords \cup {NoPassword}
    /\ UNCHANGED <<volume, unlocked, key>>

\* A search of key slots ends with the key of the volume that is opened or
\* unlocked, which takes a fitting password, or without any key.
FindKey ==
    /\ ~unlocked
    /\ \/ key' = NoKey
       \/ \E v \in Volumes :
             /\ volume \in {v, NoVolume}
             /\ OpensSlotOf(password, v)
             /\ key' = MasterKeyOf[v]
    /\ UNCHANGED <<volume, unlocked, password>>

Open ==
    /\ volume = NoVolume
    /\ volume' \in Volumes
    /\ unlocked' \in {FALSE, key = MasterKeyOf[volume']}
    /\ UNCHANGED <<key, password>>

Unlock ==
    /\ volume # NoVolume
    /\ key = MasterKeyOf[volume]
    /\ unlocked' = TRUE
    /\ UNCHANGED <<volume, key, password>>

Close ==
    /\ volume # NoVolume
    /\ volume' = NoVolume
    /\ unlocked' = FALSE
    /\ key' = NoKey
    /\ UNCHANGED password

Next == SupplyKey \/ SupplyPassword \/ FindKey \/ Open \/ Unlock \/ Close

Spec == Init /\ [][Next]_vars
=============================================================================
