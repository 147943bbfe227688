------------------------------ MODULE Upgrade ------------------------------
(***************************************************************************)
(* noops upgrade: the executable and the version that the workspace's      *)
(* catalog (apps.yml) names, which every other command wants to be equal.  *)
(* Source: internal/upgrade, internal/cli/upgrade_command.go,              *)
(* LoadWithOptions of internal/config.                                     *)
(*                                                                         *)
(* There is no lock: two upgrades and an editor may work on the same file. *)
(***************************************************************************)
EXTENDS Integers, FiniteSets

CONSTANTS
  Releases,          \* release numbers; 0 is a development build
  Upgraders,         \* noops processes
  MaxUpgrades,       \* bound: commands started
  MaxUpgradeFaults,  \* bound: commands killed
  MaxEdits           \* bound: changes of apps.yml by another writer

ASSUME UpgradeAssumption ==
  /\ Releases \subseteq Nat \ {0} /\ Releases # {}
  /\ MaxUpgrades \in Nat /\ MaxUpgradeFaults \in Nat /\ MaxEdits \in Nat

Builds  == Releases \cup {0}
Garbage == -1                    \* an archive that does not match its checksum

\* apps.yml: its version, and whether that is written with a "v".
Catalogs == [version : Builds, prefixed : BOOLEAN]

VARIABLES
  executable,   \* build of the installed executable
  catalog,      \* apps.yml
  uPc, uCmd, uOps, uFaults, edits,
  \* bookkeeping for the properties, read by no action
  overlapped,   \* commands during which someone else wrote
  apart         \* a kill, an overlap, an edit or a catalog that could not be
                \* restored may have separated the two

upgradeVars == <<executable, catalog, uPc, uCmd, uOps, uFaults, edits, overlapped, apart>>

NoUpgrade(c) == [self |-> 0, target |-> 0, candidate |-> 0, original |-> c, changed |-> FALSE]
UAt(p, l)   == uPc[p] = l
UGoto(p, l) == uPc' = [uPc EXCEPT ![p] = l]
Active      == {p \in Upgraders : uPc[p] # "idle"}
Ends(p)     == UGoto(p, "idle") /\ uCmd' = [uCmd EXCEPT ![p] = NoUpgrade(catalog')]

\* LoadWithOptions: the version in the catalog is compared as it is written.
Accepts(c, build) == c.version = build /\ ~c.prefixed

UpgradeInit ==
  /\ executable \in Builds
  /\ catalog \in Catalogs
  /\ uPc = [p \in Upgraders |-> "idle"]
  /\ uCmd = [p \in Upgraders |-> NoUpgrade(catalog)]
  /\ uOps = 0 /\ uFaults = 0 /\ edits = 0
  /\ overlapped = {} /\ apart = (catalog.version # executable)

\* CompareVersions refuses an older target; a development build compares with
\* nothing.
Older(target, self) == self # 0 /\ target < self

\* Up to the decision: config.Version is that of the running executable, which
\* is the installed one when the command starts; the catalog's version is
\* compared without its prefix.
StartUpgrade(p, target, allowDowngrade) ==
  /\ UAt(p, "idle")
  /\ uOps < MaxUpgrades
  /\ uOps' = uOps + 1
  /\ LET self == executable IN
     \/ /\ Older(target, self) /\ ~allowDowngrade         \* refused
        /\ UNCHANGED <<uPc, uCmd, overlapped, apart>>
     \/ /\ self = target /\ catalog.version = target      \* "No change required."
        /\ UNCHANGED <<uPc, uCmd, overlapped, apart>>
     \/ /\ ~Older(target, self) \/ allowDowngrade
        /\ self # target \/ catalog.version # target
        /\ uCmd' = [uCmd EXCEPT ![p].self = self, ![p].target = target]
        /\ UGoto(p, IF self = target THEN "adopt" ELSE "download")
        /\ overlapped' = IF Active = {} THEN {} ELSE Active \cup {p}
        /\ apart' = (apart \/ Active # {})
  /\ UNCHANGED <<executable, catalog, uFaults, edits>>

\* verifyChecksum, extractBinary, validateBinary.
Verified(served, target) == served = target

\* Download: whatever the repository serves under the release's name.
Download(p, served) ==
  /\ UAt(p, "download")
  /\ \/ /\ Verified(served, uCmd[p].target)
        /\ uCmd' = [uCmd EXCEPT ![p].candidate = served]
        /\ UGoto(p, "adopt")
     \/ /\ ~Verified(served, uCmd[p].target)
        /\ UGoto(p, "idle")
        /\ uCmd' = [uCmd EXCEPT ![p] = NoUpgrade(catalog)]
  /\ UNCHANGED <<executable, catalog, uOps, uFaults, edits, overlapped, apart>>

\* adoptCatalogVersion: nothing to do when the catalog has the version as it is.
AdoptRead(p) ==
  LET same == Accepts(catalog, uCmd[p].target) IN
  /\ UAt(p, "adopt")
  /\ uCmd' = [uCmd EXCEPT ![p].original = catalog, ![p].changed = ~same]
  /\ UGoto(p, IF same THEN "replace" ELSE "adopt_write")
  /\ UNCHANGED <<executable, catalog, uOps, uFaults, edits, overlapped, apart>>

\* UpdateCatalogVersion: the file that was read, with another version line.  An
\* upgrade to the running version ends here.
AdoptWrite(p) ==
  LET c == uCmd[p] IN
  /\ UAt(p, "adopt_write")
  /\ catalog' = [c.original EXCEPT !.version = c.target, !.prefixed = FALSE]
  /\ IF c.self = c.target
       THEN Ends(p) /\ apart' = (apart /\ p \in overlapped)
       ELSE UGoto(p, "replace") /\ UNCHANGED <<uCmd, apart>>
  /\ UNCHANGED <<executable, uOps, uFaults, edits, overlapped>>

AdoptFails(p) ==
  /\ uPc[p] \in {"adopt", "adopt_write"}
  /\ UGoto(p, "idle")
  /\ uCmd' = [uCmd EXCEPT ![p] = NoUpgrade(catalog)]
  /\ UNCHANGED <<executable, catalog, uOps, uFaults, edits, overlapped, apart>>

\* replaceFile renames over the executable.
ReplaceExecutable(p) ==
  /\ UAt(p, "replace")
  /\ uCmd[p].self # uCmd[p].target
  /\ executable' = uCmd[p].candidate
  /\ UNCHANGED catalog
  /\ Ends(p)
  /\ apart' = (apart /\ p \in overlapped)
  /\ UNCHANGED <<uOps, uFaults, edits, overlapped>>

AlreadyAdopted(p) ==
  /\ UAt(p, "replace")
  /\ uCmd[p].self = uCmd[p].target
  /\ UNCHANGED catalog
  /\ Ends(p)
  /\ UNCHANGED <<executable, uOps, uFaults, edits, overlapped, apart>>

\* Mutant: the catalog keeps the version whose executable could not be installed.
ReplaceFails_NoRollback(p) ==
  /\ UAt(p, "replace")
  /\ uCmd[p].self # uCmd[p].target
  /\ UNCHANGED catalog
  /\ Ends(p)
  /\ UNCHANGED <<executable, uOps, uFaults, edits, overlapped, apart>>

\* Without permission for the executable's directory the catalog gets back the
\* bytes it had, or the error says that it could not.
ReplaceFails(p) ==
  LET restored == IF uCmd[p].changed THEN uCmd[p].original ELSE catalog IN
  /\ UAt(p, "replace")
  /\ uCmd[p].self # uCmd[p].target
  /\ \/ catalog' = restored /\ UNCHANGED apart
     \/ /\ uCmd[p].changed
        /\ UNCHANGED catalog           \* "also failed to restore apps.yml"
        /\ apart' = TRUE
  /\ Ends(p)
  /\ UNCHANGED <<executable, uOps, uFaults, edits, overlapped>>

KillUpgrade(p) ==
  /\ uPc[p] # "idle"
  /\ uFaults < MaxUpgradeFaults
  /\ uFaults' = uFaults + 1
  /\ apart' = TRUE
  /\ UNCHANGED catalog
  /\ Ends(p)
  /\ UNCHANGED <<executable, uOps, edits, overlapped>>

\* Another writer of the workspace: an editor, or a pull of the catalog that
\* another machine upgraded.
EditCatalog ==
  /\ edits < MaxEdits
  /\ edits' = edits + 1
  /\ catalog' \in Catalogs
  /\ overlapped' = overlapped \cup Active
  /\ apart' = (apart \/ Active # {} \/ catalog'.version # executable)
  /\ UNCHANGED <<executable, uPc, uCmd, uOps, uFaults>>

UpgradeNext ==
  \/ \E p \in Upgraders :
       \/ \E target \in Releases, down \in BOOLEAN : StartUpgrade(p, target, down)
       \/ \E served \in Builds \cup {Garbage} : Download(p, served)
       \/ AdoptRead(p) \/ AdoptWrite(p) \/ AdoptFails(p)
       \/ ReplaceExecutable(p) \/ AlreadyAdopted(p) \/ ReplaceFails(p) \/ KillUpgrade(p)
  \/ EditCatalog

UpgradeSpec == UpgradeInit /\ [][UpgradeNext]_upgradeVars

-----------------------------------------------------------------------------
UpgradeTypeOK ==
  /\ executable \in Builds \cup {Garbage} /\ catalog \in Catalogs
  /\ uPc \in [Upgraders -> {"idle", "download", "adopt", "adopt_write", "replace"}]
  /\ uOps \in 0..MaxUpgrades /\ uFaults \in 0..MaxUpgradeFaults /\ edits \in 0..MaxEdits
  /\ overlapped \subseteq Upgraders /\ apart \in BOOLEAN

\* Between commands executable and catalog name the same version, so that the
\* other commands run, however the upgrades ended: what was downloaded was the
\* release asked for, a failed upgrade gives the catalog back, and what separates
\* them is a kill between the two writes, another writer, or an upgrade that can
\* neither install the executable nor restore apps.yml, which it reports.  The
\* next upgrade that runs alone to its end brings them together again.
UpgradeKeepsInStep ==
  (~apart /\ Active = {}) => catalog.version = executable
=============================================================================
