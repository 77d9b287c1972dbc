--------------------------- MODULE ReleaseIdentity --------------------------
(***************************************************************************)
(* What is a release, and is this installation one?  A release inventory   *)
(* names the content of the package, its locks and its migrations.  A      *)
(* preparation turns a checkout into a directory of install inputs: it     *)
(* reads the checkout at many instants, while people go on editing it.     *)
(* The inputs are carried to a host and installed there, both can change   *)
(* afterwards, and a preflight compares the installation with its own      *)
(* inventory and with the inputs, step by step and without any lock        *)
(* (release_identity.py, tools/prepare_release_inputs.py,                  *)
(* qualification_identity.py).                                             *)
(*                                                                         *)
(* A digest of a content is the content itself; every check of a file      *)
(* against its digest is kept.  A distribution is a pair of its name and   *)
(* of its version, which is the content of the locks that chose it.        *)
(***************************************************************************)
EXTENDS Integers

CONSTANTS
  Contents,    \* what a part of the source can be
  Preparers,   \* runs of the preparation
  Targets,     \* directories that they may be told to make
  MaxEdits,    \* bound: edits of the checkout
  MaxDrifts,   \* bound: changes of inputs and of installations
  None

\* What the inventory names, and the qualification provider, which it does not.
Released == {"code", "locks", "migrations"}
Parts == Released \cup {"fixture"}

\* The distributions that the locks choose: those of the runtime, and those
\* of the optional connection to PostgreSQL.
Runtime == {"nicegui"}
Postgres == {"psycopg", "pool"}
Locked(names, locks) == {<<name, locks>> : name \in names}

VARIABLES
  checkout,     \* the working tree: its parts, its stored inventory and its HEAD
  preparation,  \* what each preparer has read and made so far
  inputs,       \* the directories of install inputs
  environment,  \* the installed files and distributions, or None
  preflight,    \* the preflight under way, or passed, or None
  edits, drifts

vars == <<checkout, preparation, inputs, environment, preflight, edits, drifts>>

Inventory(parts) == [part \in Released |-> parts[part]]

Inventories == [Released -> Contents]
Trees == [parts : [Parts -> Contents], inventory : Inventories]
Wheels == [code : Contents, locks : Contents, migrations : Contents \cup {None},
           inventory : Inventories]
Kits == [release : Inventories, commit : Trees \cup {None}, wheel : Contents,
         digest : Contents, content : Contents \cup {None}]
Distributions == (Runtime \cup Postgres \cup {"other", "provider"}) \X Contents

Preparation ==
  [pc : {"loaded", "identified", "downloaded", "copied", "built", "assembled"},
   target : Targets, quiet : BOOLEAN, release : Inventories, commit : Trees \cup {None},
   wheel : Wheels \cup {None}, kit : Kits \cup {None}, locks : Contents \cup {None}]
InstallInputs ==
  [release : Inventories, commit : Trees \cup {None}, quiet : BOOLEAN, locks : Contents,
   wheel : Wheels, digest : Wheels, others : SUBSET Distributions, kit : Kits]
Installation ==
  [parts : [Released -> Contents \cup {None}], inventory : Inventories, origin : Wheels,
   others : SUBSET Distributions]
Examination ==
  [pc : {"inventory", "locks", "migrations", "inputs", "kit", "passed"}, target : Targets,
   kit : BOOLEAN, moved : BOOLEAN, inventory : Inventories, locks : Contents \cup {None},
   read : InstallInputs \cup {None}]

TypeOK ==
  /\ checkout \in [parts : [Parts -> Contents], inventory : Inventories, head : Trees]
  /\ preparation \in [Preparers -> Preparation \cup {None}]
  /\ inputs \in [Targets -> InstallInputs \cup {None}]
  /\ environment \in Installation \cup {None}
  /\ preflight \in Examination \cup {None}

Init ==
  \E c \in Contents :
    LET parts == [part \in Parts |-> c] IN
      /\ checkout = [parts |-> parts, inventory |-> Inventory(parts),
                     head |-> [parts |-> parts, inventory |-> Inventory(parts)]]
      /\ preparation = [p \in Preparers |-> None]
      /\ inputs = [t \in Targets |-> None]
      /\ environment = None
      /\ preflight = None
      /\ edits = 0 /\ drifts = 0

---------------------------------------------------------------------------
(* The checkout, which does not wait for a preparation.                    *)

\* A preparation that saw the checkout move is no longer quiet.
Moving ==
  preparation' = [p \in Preparers |->
    IF preparation[p] = None THEN None ELSE [preparation[p] EXCEPT !.quiet = FALSE]]

Edit(part, c) ==
  /\ edits < MaxEdits /\ checkout.parts[part] # c
  /\ checkout' = [checkout EXCEPT !.parts[part] = c]
  /\ edits' = edits + 1
  /\ Moving
  /\ UNCHANGED <<inputs, environment, preflight, drifts>>

\* tools/generate_release_inventory.py --write
WriteInventory ==
  /\ checkout.inventory # Inventory(checkout.parts)
  /\ checkout' = [checkout EXCEPT !.inventory = Inventory(checkout.parts)]
  /\ Moving
  /\ UNCHANGED <<inputs, environment, preflight, edits, drifts>>

Work == [parts |-> checkout.parts, inventory |-> checkout.inventory]

Commit ==
  /\ checkout.head # Work
  /\ checkout' = [checkout EXCEPT !.head = Work]
  /\ Moving
  /\ UNCHANGED <<inputs, environment, preflight, edits, drifts>>

---------------------------------------------------------------------------
(* A preparation reads the checkout seven times.                           *)

At(p, pc) == preparation[p] # None /\ preparation[p].pc = pc

\* A step fills in what it has read; one whose check fails ends the run, whose
\* temporary directory goes with it.
Proceed(p, check, made) ==
  /\ preparation' = [preparation EXCEPT ![p] = IF check THEN made ELSE None]
  /\ UNCHANGED <<checkout, inputs, environment, preflight, edits, drifts>>

\* Mistake: whatever inventory is stored is believed.
TrustsStored == TRUE

\* The stored inventory must be what the checkout would yield.
Current == checkout.inventory = Inventory(checkout.parts)

LoadInventory(p, t) ==
  /\ preparation[p] = None
  /\ Proceed(p, Current,
       [pc |-> "loaded", target |-> t, quiet |-> TRUE, release |-> checkout.inventory,
        commit |-> None, wheel |-> None, kit |-> None, locks |-> None])

\* A checkout with uncommitted work has no identity.
Clean == checkout.head = Work

GitIdentity(p) ==
  /\ At(p, "loaded")
  /\ Proceed(p, Clean /\ inputs[preparation[p].target] = None,
       [preparation[p] EXCEPT !.pc = "identified", !.commit = checkout.head])

\* The distributions are fetched with the lock files of this instant, and must
\* be those of the index that was read with the inventory.
Download(p) ==
  /\ At(p, "identified")
  /\ Proceed(p, checkout.parts["locks"] = preparation[p].release["locks"],
       [preparation[p] EXCEPT !.pc = "downloaded"])

\* The package is copied, with the inventory in it, and then the migrations;
\* a wheel is built of the copy, and one of the qualification provider.
CopyPackage(p) ==
  /\ At(p, "downloaded")
  /\ Proceed(p, TRUE,
       [preparation[p] EXCEPT !.pc = "copied",
          !.wheel = [code |-> checkout.parts["code"], locks |-> checkout.parts["locks"],
                     migrations |-> None, inventory |-> checkout.inventory]])

BuildWheels(p) ==
  /\ At(p, "copied")
  /\ Proceed(p, TRUE,
       [preparation[p] EXCEPT !.pc = "built",
          !.wheel.migrations = checkout.parts["migrations"],
          !.kit = [release |-> preparation[p].release, commit |-> preparation[p].commit,
                   wheel |-> checkout.parts["fixture"], digest |-> checkout.parts["fixture"],
                   content |-> None]])

\* The digests of the wheels are taken, then those of the provider's sources,
\* and the lock files are copied again.
Assemble(p) ==
  /\ At(p, "built")
  /\ Proceed(p, TRUE,
       [preparation[p] EXCEPT !.pc = "assembled", !.locks = checkout.parts["locks"],
          !.kit.content = checkout.parts["fixture"]])

\* A whole directory takes its place at once, if nobody has made it meanwhile.
Publish(p) ==
  LET made == preparation[p] IN
    /\ At(p, "assembled")
    /\ preparation' = [preparation EXCEPT ![p] = None]
    /\ IF inputs[made.target] = None
       THEN inputs' = [inputs EXCEPT ![made.target] =
              [release |-> made.release, commit |-> made.commit, quiet |-> made.quiet,
               locks |-> made.locks, wheel |-> made.wheel, digest |-> made.wheel,
               others |-> Locked(Runtime \cup Postgres, made.release["locks"]),
               kit |-> made.kit]]
       ELSE UNCHANGED inputs
    /\ UNCHANGED <<checkout, environment, preflight, edits, drifts>>

Die(p) ==
  /\ preparation[p] # None
  /\ preparation' = [preparation EXCEPT ![p] = None]
  /\ UNCHANGED <<checkout, inputs, environment, preflight, edits, drifts>>

---------------------------------------------------------------------------
(* The inputs travel, and the host changes.  A preflight under way does    *)
(* not notice; a report that passed is about the time before.              *)

Disturb ==
  preflight' = IF preflight = None \/ preflight.pc = "passed" THEN None
               ELSE [preflight EXCEPT !.moved = TRUE]

Damage(t, c) ==
  /\ drifts < MaxDrifts /\ inputs[t] # None
  /\ \/ inputs' = [inputs EXCEPT ![t].wheel.code = c]
     \/ inputs' = [inputs EXCEPT ![t].locks = c]
     \/ inputs' = [inputs EXCEPT ![t].kit.wheel = c]
     \/ inputs' = [inputs EXCEPT ![t].others = @ \cup Locked({"other"}, c)]
  /\ inputs' # inputs
  /\ drifts' = drifts + 1
  /\ Disturb
  /\ UNCHANGED <<checkout, preparation, environment, edits>>

\* pip installs from the inputs, with or without the two extras.
Install(t, optional, kit) ==
  /\ inputs[t] # None
  /\ environment' =
       [parts |-> [part \in Released |-> inputs[t].wheel[part]],
        inventory |-> inputs[t].wheel.inventory, origin |-> inputs[t].wheel,
        others |-> Locked(Runtime \cup optional, inputs[t].locks)
                     \cup IF kit THEN {<<"provider", inputs[t].kit.wheel>>} ELSE {}]
  /\ environment' # environment
  /\ Disturb
  /\ UNCHANGED <<checkout, preparation, inputs, edits, drifts>>

Drift(part, c) ==
  /\ drifts < MaxDrifts /\ environment # None
  /\ \/ environment' = [environment EXCEPT !.parts[part] = c]
     \/ \E name \in Postgres \cup {"other"} :
          environment' = [environment EXCEPT !.others = @ \cup Locked({name}, c)]
     \/ \E other \in environment.others :
          environment' = [environment EXCEPT !.others = @ \ {other}]
  /\ environment' # environment
  /\ drifts' = drifts + 1
  /\ Disturb
  /\ UNCHANGED <<checkout, preparation, inputs, edits>>

---------------------------------------------------------------------------
(* The preflight.                                                          *)

Preflight(pc) == preflight # None /\ preflight.pc = pc

\* The first check that fails ends the preflight.
Advance(check, next) ==
  /\ preflight' = IF check THEN next ELSE None
  /\ UNCHANGED <<checkout, preparation, inputs, environment, edits, drifts>>

ReadInstalledInventory(t, kit) ==
  /\ environment # None /\ preflight = None
  /\ Advance(TRUE, [pc |-> "inventory", target |-> t, kit |-> kit, moved |-> FALSE,
                    inventory |-> environment.inventory, locks |-> None, read |-> None])

VerifyInstalledLocks ==
  /\ Preflight("inventory")
  /\ Advance(environment.parts["locks"] = preflight.inventory["locks"],
       [preflight EXCEPT !.pc = "locks", !.locks = environment.parts["locks"]])

\* The migrations are installed outside the package; the file of the inventory
\* is read once more for them.
VerifyMigrations ==
  /\ Preflight("locks")
  /\ Advance(/\ environment.parts["migrations"] = environment.inventory["migrations"]
             /\ environment.parts["migrations"] = preflight.inventory["migrations"],
       [preflight EXCEPT !.pc = "migrations"])

\* The inputs are of this release, every file is the one that was digested, and
\* there is no other.
Untouched(i) ==
  /\ i.wheel = i.digest
  /\ i.others = Locked(Runtime \cup Postgres, preflight.locks)

VerifyInputs ==
  LET i == inputs[preflight.target] IN
    /\ Preflight("migrations")
    /\ Advance(/\ i # None
               /\ i.release = preflight.inventory
               /\ i.locks = preflight.locks /\ i.locks = environment.parts["locks"]
               /\ Untouched(i),
         [preflight EXCEPT !.pc = "inputs", !.read = i])

\* The kit is of the release and of the source of the inputs, and what is
\* installed of it has the content that it lists.
KitIsWhole(kit) ==
  /\ kit.release = preflight.read.release /\ kit.commit = preflight.read.commit
  /\ kit.wheel = kit.digest
  /\ {other \in environment.others : other[1] = "provider"} = {<<"provider", kit.content>>}

VerifyKit ==
  /\ Preflight("inputs")
  /\ Advance(preflight.kit => KitIsWhole(inputs[preflight.target].kit),
       [preflight EXCEPT !.pc = "kit",
          !.read.kit = IF preflight.kit THEN inputs[preflight.target].kit ELSE @])

\* All of the optional distributions are there, or none is, and nothing that is
\* not allowed.
Allowed ==
  LET optional == {name \in Postgres : \E other \in environment.others : other[1] = name}
  IN  Locked(Runtime \cup optional, preflight.locks)
        \cup IF preflight.kit
             THEN {<<"provider", preflight.read.kit.content>>} ELSE {}
AllOrNone ==
  LET optional == {name \in Postgres : \E other \in environment.others : other[1] = name}
  IN  optional \in {{}, Postgres}

\* The installed files of the package are those that the inventory names.
PackageIs(inventory) ==
  \A part \in {"code", "locks"} : environment.parts[part] = inventory[part]

VerifySubject ==
  /\ Preflight("kit")
  /\ Advance(/\ PackageIs(preflight.inventory)
             /\ environment.origin = preflight.read.digest
             /\ AllOrNone /\ environment.others = Allowed,
       [preflight EXCEPT !.pc = "passed"])

\* The identity that the running package gives of itself.
InstalledReleaseIdentity ==
  IF PackageIs(environment.inventory) THEN environment.inventory ELSE None

---------------------------------------------------------------------------
CheckoutStep == WriteInventory \/ Commit \/ \E part \in Parts, c \in Contents : Edit(part, c)
PrepareStep ==
  \E p \in Preparers :
    \/ \E t \in Targets : LoadInventory(p, t)
    \/ GitIdentity(p) \/ Download(p) \/ CopyPackage(p) \/ BuildWheels(p) \/ Assemble(p)
    \/ Publish(p) \/ Die(p)
HostStep ==
  \/ \E t \in Targets, c \in Contents : Damage(t, c)
  \/ \E t \in Targets, optional \in {{}, Postgres}, kit \in BOOLEAN : Install(t, optional, kit)
  \/ \E part \in Released, c \in Contents : Drift(part, c)
PreflightStep ==
  \/ \E t \in Targets, kit \in BOOLEAN : ReadInstalledInventory(t, kit)
  \/ VerifyInstalledLocks \/ VerifyMigrations \/ VerifyInputs \/ VerifyKit \/ VerifySubject

Next == CheckoutStep \/ PrepareStep \/ HostStep \/ PreflightStep

Spec == Init /\ [][Next]_vars

---------------------------------------------------------------------------
\* A preflight that passes has before it the release that the inputs name:
\* its package, built into the very wheel of the inputs, and the distributions
\* of its locks without one too many or too few, even when the host changed
\* underneath.  When it did not, the migrations and the inventory are of that
\* release as well (release_identity.py, release_preflight).
PassedIsTheRelease ==
  preflight # None /\ preflight.pc = "passed" =>
    LET i == preflight.read
        provider == IF preflight.kit THEN {<<"provider", i.kit.content>>} ELSE {}
    IN  /\ \A part \in {"code", "locks"} : environment.parts[part] = i.release[part]
        /\ environment.origin = i.digest
        /\ \E optional \in {{}, Postgres} :
             environment.others = Locked(Runtime \cup optional, i.release["locks"]) \cup provider
        /\ preflight.kit => i.kit.commit = i.commit
        /\ ~preflight.moved =>
             /\ environment.parts = i.release
             /\ InstalledReleaseIdentity = i.release

\* A preparation during which the checkout stood still makes inputs that can
\* pass: its wheel, its locks and the commit that it names are the release
\* (tools/prepare_release_inputs.py, _prepare).
QuietInputsAreWhole ==
  \A t \in Targets : inputs[t] # None /\ inputs[t].quiet =>
    LET i == inputs[t] IN
      /\ i.digest.inventory = i.release
      /\ \A part \in Released : i.digest[part] = i.release[part]
      /\ Inventory(i.commit.parts) = i.release
      /\ i.kit.content = i.kit.digest

ReleaseIsWhole == PassedIsTheRelease /\ QuietInputsAreWhole
=============================================================================
