------------------------------ MODULE Keystore ------------------------------
(***************************************************************************)
(* The local keystore (packages/keystore): key files under ~/.prim/keys,   *)
(* encrypted with the device key or a passphrase, and the default wallet   *)
(* of config.toml.  Commands of the CLI are processes of their own, and    *)
(* nothing locks the files: a step here is one access to a file.           *)
(***************************************************************************)
EXTENDS Integers, FiniteSets

CONSTANTS Address,
          Command,      (* as many commands may run at once                *)
          CommandLimit  (* bound: commands                                 *)

NoAddress == "no address"
NoFile == -1

ASSUME KeystoreAssumption == CommandLimit \in Nat /\ NoAddress \notin Address

VARIABLES device,   (* device.key: which one of those ever made; 0: none   *)
          devices,  (* how many have been made                             *)
          keyFile,  (* keys/<address>.json: the device key it is           *)
                      (* encrypted with; 0: a passphrase                   *)
          default,   (* default_wallet of config.toml                      *)
          command,   (* the commands under way                             *)
          commands,  (* commands so far                                    *)
          twice,     (* history: a command made a device key while         *)
                      (* another was about to                              *)
          raggedly  (* history: imports overlapped or died half way, or    *)
                      (* the default was set to, or left with, no file     *)

keystoreVars == <<device, devices, keyFile, default, command, commands, twice, raggedly>>

NoCommand == [pc |-> "idle", address |-> NoAddress, key |-> 0]

KeystoreTypeOK ==
  /\ device \in 0..devices /\ devices \in Nat
  /\ keyFile \in [Address -> {NoFile} \cup 0..devices]
  /\ default \in Address \cup {NoAddress}
  /\ command \in [Command ->
       [pc : {"idle", "make", "save", "count", "default"},
        address : Address \cup {NoAddress}, key : 0..devices]]
  /\ commands \in 0..CommandLimit
  /\ twice \in BOOLEAN /\ raggedly \in BOOLEAN

KeystoreInit ==
  /\ device = 0 /\ devices = 0
  /\ keyFile = [a \in Address |-> NoFile]
  /\ default = NoAddress
  /\ command = [c \in Command |-> NoCommand]
  /\ commands = 0 /\ twice = FALSE /\ raggedly = FALSE

Keys == {a \in Address : keyFile[a] # NoFile}

-----------------------------------------------------------------------------
CountCommand == commands < CommandLimit /\ commands' = commands + 1

Importing == \E c \in Command : command[c].pc # "idle"

StartImport(c, a, what) ==
  /\ command[c].pc = "idle" /\ CountCommand
  /\ command' = [command EXCEPT ![c] = what]
  /\ raggedly' = (raggedly \/ Importing)
  /\ UNCHANGED <<device, devices, keyFile, default, twice>>

(* Broken: the device key is made anew for every key.                      *)
ImportAnew(c, a, passphrase) ==
  StartImport(c, a, [pc |-> IF passphrase THEN "save" ELSE "make", address |-> a, key |-> 0])

(* importKey, also for createKey: with a passphrase, or the device key,    *)
(* which is read where there is one (existsSync, readFileSync).            *)
ImportKey(c, a, passphrase) ==
  StartImport(c, a,
    [pc |-> IF passphrase \/ device # 0 THEN "save" ELSE "make", address |-> a,
     key |-> IF passphrase THEN 0 ELSE device])

(* getOrCreateDeviceKey writes the one it has made.                        *)
MakeDeviceKey(c) ==
  /\ command[c].pc = "make"
  /\ devices' = devices + 1 /\ device' = devices'
  /\ command' = [command EXCEPT ![c].pc = "save", ![c].key = devices']
  /\ twice' = (twice \/ \E d \in Command \ {c} : command[d].pc = "make")
  /\ UNCHANGED <<keyFile, default, commands, raggedly>>

SaveKeystoreFile(c) ==
  /\ command[c].pc = "save"
  /\ keyFile' = [keyFile EXCEPT ![command[c].address] = command[c].key]
  /\ command' = [command EXCEPT ![c].pc = "count"]
  /\ UNCHANGED <<device, devices, default, commands, twice, raggedly>>

EndCommand(c) == command' = [command EXCEPT ![c] = NoCommand]

(* "Auto-set as default if this is the first key."                         *)
ListKeys(c) ==
  /\ command[c].pc = "count"
  /\ IF Cardinality(Keys) = 1 THEN command' = [command EXCEPT ![c].pc = "default"]
     ELSE EndCommand(c)
  /\ UNCHANGED <<device, devices, keyFile, default, commands, twice, raggedly>>

SetFirstDefault(c) ==
  /\ command[c].pc = "default"
  /\ default' = command[c].address
  /\ EndCommand(c)
  /\ UNCHANGED <<device, devices, keyFile, commands, twice, raggedly>>

(* The process dies.                                                       *)
KillCommand(c) ==
  /\ command[c].pc # "idle"
  /\ raggedly' = TRUE
  /\ EndCommand(c)
  /\ UNCHANGED <<device, devices, keyFile, default, commands, twice>>

(* prim wallet default: whether there is such a key is not looked at.      *)
SetDefaultAddress(a) ==
  /\ CountCommand
  /\ default' = a
  /\ raggedly' = (raggedly \/ Importing \/ a \notin Keys)
  /\ UNCHANGED <<device, devices, keyFile, command, twice>>

(* prim wallet remove; the default stays what it was.                      *)
RemoveKey(a) ==
  /\ a \in Keys /\ CountCommand
  /\ keyFile' = [keyFile EXCEPT ![a] = NoFile]
  /\ raggedly' = (raggedly \/ Importing \/ a = default)
  /\ UNCHANGED <<device, devices, default, command, twice>>

KeystoreNext ==
  \/ \E c \in Command :
       \/ \E a \in Address, passphrase \in BOOLEAN : ImportKey(c, a, passphrase)
       \/ MakeDeviceKey(c) \/ SaveKeystoreFile(c) \/ ListKeys(c) \/ SetFirstDefault(c)
       \/ KillCommand(c)
  \/ \E a \in Address : SetDefaultAddress(a) \/ RemoveKey(a)

KeystoreSpec == KeystoreInit /\ [][KeystoreNext]_keystoreVars

-----------------------------------------------------------------------------
(* resolveAddress finds a key when none is asked for.                      *)
Resolves ==
  IF default # NoAddress THEN default \in Keys ELSE Cardinality(Keys) = 1

(* Every key file opens with the device key that is on disk, or with its   *)
(* passphrase, unless two commands were making a device key at once; and   *)
(* who has keys can load one without naming it, as long as imports come    *)
(* one after another and the default's file is not taken away              *)
(* (keystore.ts:83-170, device.ts:11-24, config.ts:58-63).                 *)
KeysOpen ==
  /\ ~ twice => \A a \in Keys : keyFile[a] \in {0, device}
  /\ ~ raggedly /\ ~ Importing /\ Keys # {} => Resolves
=============================================================================
