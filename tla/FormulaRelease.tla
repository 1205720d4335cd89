---------------------------- MODULE FormulaRelease ----------------------------
(***************************************************************************)
(* host/brew/generate.py: Renovate raises the version of a package in      *)
(* packages.json and the generator writes the Homebrew formula of that     *)
(* version, then the manifest that names it. Formulae are immutable: the   *)
(* tap keeps every one that was ever released.                             *)
(***************************************************************************)
EXTENDS Naturals, Sequences

CONSTANTS
    Packages, Versions,
    Order,          \* the packages as the manifest lists them
    Collides,       \* <<p, v, w>>: the formulae of v and w would be one Ruby class
    Missing,        \* no such formula
    MaxRetags       \* how often a published artifact is replaced upstream

ASSUME OrderAssumption == /\ Order \in Seq(Packages)
                          /\ \A p \in Packages : \E i \in DOMAIN Order : Order[i] = p
ASSUME CollisionAssumption == /\ Collides \subseteq Packages \X Versions \X Versions
                              /\ \A c \in Collides : c[2] # c[3]
ASSUME MissingAssumption == Missing \notin {0, 1}

VARIABLES
    version,        \* the manifest's "version" of each package
    reference,      \* the version its "formula" names
    upstream,       \* the digest of each released artifact
    formulae,       \* the digest each formula file was rendered with, or Missing
    todo,           \* packages the running generator has not reached
    renames,        \* references it will write into the manifest
    retags

releaseVars == <<version, reference, upstream, formulae, todo, renames, retags>>

Idle == [p \in Packages |-> FALSE]

ReleaseInit ==
    /\ version \in [Packages -> Versions]
    /\ reference = version
    /\ upstream = [p \in Packages |-> [v \in Versions |-> 0]]
    /\ formulae = [p \in Packages |-> [v \in Versions |-> IF v = version[p] THEN 0 ELSE Missing]]
    /\ todo = <<>> /\ renames = Idle
    /\ retags = 0

Generating == todo # <<>> \/ renames # Idle
Exists(p, v) == formulae[p][v] # Missing

\* A class two formulae would share is refused before the new one is written.
FreeClass(p, v) ==
    \A w \in Versions : (Exists(p, w) /\ w # v) => {<<p, v, w>>, <<p, w, v>>} \intersect Collides = {}

Renovate(p, v) ==
    /\ ~Generating
    /\ version' = [version EXCEPT ![p] = v]
    /\ UNCHANGED <<reference, upstream, formulae, todo, renames, retags>>

Retag(p, v) ==
    /\ retags < MaxRetags
    /\ upstream' = [upstream EXCEPT ![p][v] = 1]
    /\ retags' = retags + 1
    /\ UNCHANGED <<version, reference, formulae, todo, renames>>

Generate ==
    /\ ~Generating
    /\ todo' = Order
    /\ UNCHANGED <<version, reference, upstream, formulae, renames, retags>>

Current(p) == reference[p] = version[p] /\ Exists(p, version[p])

\* The package needs nothing, or its formula can be written, or is there already.
Renders(p) ==
    /\ FreeClass(p, version[p])
    /\ Current(p) \/ ~Exists(p, version[p]) \/ formulae[p][version[p]] = upstream[p][version[p]]

GeneratePackage(p) ==
    /\ todo # <<>> /\ p = Head(todo) /\ Renders(p)
    /\ formulae' = IF Current(p) THEN formulae
                   ELSE [formulae EXCEPT ![p][version[p]] = upstream[p][version[p]]]
    /\ renames' = [renames EXCEPT ![p] = reference[p] # version[p]]
    /\ todo' = Tail(todo)
    /\ UNCHANGED <<version, reference, upstream, retags>>

(* Mutant: the manifest is written before the formulae. *)
WriteManifestFirst ==
    /\ todo = Order
    /\ reference' = version
    /\ UNCHANGED <<version, upstream, formulae, todo, renames, retags>>

\* Every package is done: the manifest is written once, with all the new references.
WriteManifest ==
    /\ todo = <<>> /\ renames # Idle
    /\ reference' = [p \in Packages |-> IF renames[p] THEN version[p] ELSE reference[p]]
    /\ renames' = Idle
    /\ UNCHANGED <<version, upstream, formulae, todo, retags>>

\* A package that cannot be rendered, a download that fails or a kill ends the run; the
\* formulae already written stay and the manifest is as it was.
Stop ==
    /\ Generating
    /\ todo' = <<>> /\ renames' = Idle
    /\ UNCHANGED <<version, reference, upstream, formulae, retags>>

ReleaseNext ==
    \/ \E p \in Packages, v \in Versions : Renovate(p, v) \/ Retag(p, v)
    \/ \E p \in Packages : GeneratePackage(p)
    \/ Generate \/ WriteManifest \/ Stop

\* load_manifest takes a manifest whose formulae name their versions; validate_formulae one
\* whose formulae are there.
Loads     == \A p \in Packages : reference[p] = version[p]
Validates == \A p \in Packages : Exists(p, version[p])

(* A formula that was once released never changes, however often the       *)
(* generator runs, stops halfway or finds that upstream has replaced the   *)
(* artifact; and no two formulae of a package ever define the same class   *)
(* (generate_updates, _reject_formula_class_collision).                    *)
FormulaeAreImmutable ==
    [][/\ \A p \in Packages, v \in Versions :
            formulae[p][v] # Missing => formulae'[p][v] = formulae[p][v]
       /\ \A c \in Collides :
            ~(formulae'[c[1]][c[2]] # Missing /\ formulae'[c[1]][c[3]] # Missing)]_releaseVars

(* A manifest that can be loaded names only formulae that are in the tap,  *)
(* also when the generator stopped between two packages or between the last *)
(* formula and the manifest (generate_updates, validate_formulae).         *)
LoadableIsReleased == Loads => Validates

-----------------------------------------------------------------------------
(* What makes both inductive.                                              *)

ReleaseTypeOK ==
    /\ version \in [Packages -> Versions] /\ reference \in [Packages -> Versions]
    /\ upstream \in [Packages -> [Versions -> {0, 1}]]
    /\ formulae \in [Packages -> [Versions -> {0, 1, Missing}]]
    /\ renames \in [Packages -> BOOLEAN]

(* What the manifest names is in the tap, and so is what a running         *)
(* generator is about to write into it.                                    *)
NamedExist ==
    \A p \in Packages : Exists(p, reference[p]) /\ (renames[p] => Exists(p, version[p]))

ClassesDiffer ==
    \A c \in Collides : formulae[c[1]][c[2]] = Missing \/ formulae[c[1]][c[3]] = Missing

ReleaseInv == ReleaseTypeOK /\ NamedExist /\ ClassesDiffer

=============================================================================
