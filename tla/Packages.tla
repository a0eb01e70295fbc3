------------------------------ MODULE Packages ------------------------------
(***************************************************************************)
(* Contract packages on disk (bin/ivory/src/contract.rs): loading a YAML   *)
(* manifest, .wat or .wasm file, copying a package into a node's contracts *)
(* directory, and the catalog that names a code hash.  A file system is a  *)
(* function from paths [dir, stem, ext] to contents; a directory is a      *)
(* sequence of names.  A .wat or .wasm file holds the code it compiles to, *)
(* or Broken.                                                              *)
(***************************************************************************)
EXTENDS Integers, SequencesExt

CONSTANT Broken

IsYaml(path) == path.ext \in {"yaml", "yml"}
IsRaw(path) == path.ext \in {"wat", "wasm"}

\* A manifest: a name ("" is blank), inline code or the relative path of a
\* source, each {} when the key is absent.
Manifest(name, wat, source) == [name |-> name, wat |-> wat, source |-> source]

\* Path::join
Joined(dir, rel) == [dir |-> dir \o rel.dir, stem |-> rel.stem, ext |-> rel.ext]

NotLoaded == [ok |-> FALSE, loops |-> FALSE]
Loaded(name, code) == [ok |-> TRUE, loops |-> FALSE, name |-> name, code |-> code]
Loops == [ok |-> FALSE, loops |-> TRUE]

RECURSIVE LoadFrom(_, _, _)

\* load_contract_file and load_yaml; a manifest that is its own source, directly
\* or through others, recurses without end.
LoadFrom(fs, path, seen) ==
    IF path \in seen THEN Loops
    ELSE IF path \notin DOMAIN fs \/ ~(IsYaml(path) \/ IsRaw(path)) THEN NotLoaded
    ELSE IF IsRaw(path)
    THEN IF fs[path] = Broken THEN NotLoaded ELSE Loaded(path.stem, fs[path])
    ELSE LET man == fs[path]
         IN  CASE man.name = "" -> NotLoaded
               [] man.name # "" /\ man.wat # {} ->
                    LET code == CHOOSE c \in man.wat : TRUE
                    IN  IF code = Broken THEN NotLoaded ELSE Loaded(man.name, code)
               [] man.name # "" /\ man.wat = {} /\ man.source # {} ->
                    LET rel == CHOOSE r \in man.source : TRUE
                        src == LoadFrom(fs, Joined(path.dir, rel), seen \cup {path})
                    IN  IF src.ok THEN Loaded(man.name, src.code) ELSE src
               [] OTHER -> NotLoaded

LoadContract(fs, path) == LoadFrom(fs, path, {})


\* install_contract_files: the source is copied beside the manifest, under its
\* file name alone
Install(fs, path, dest) ==
    LET copied == [p \in {[path EXCEPT !.dir = dest]} |-> fs[path]] @@ fs
        rels == IF IsYaml(path) THEN fs[path].source ELSE {}
    IN  IF rels = {} THEN copied
        ELSE LET rel == CHOOSE r \in rels : TRUE
                 from == Joined(path.dir, rel)
             IN  IF from \notin DOMAIN fs THEN copied
                 ELSE [p \in {[rel EXCEPT !.dir = dest]} |-> fs[from]] @@ copied

\* A raw source that a manifest of the same stem stands for.
HasYaml(fs, path) ==
    \E ext \in {"yaml", "yml"} : [path EXCEPT !.ext = ext] \in DOMAIN fs

\* Mutant: raw sources are listed like any other file.
EveryFile(fs, entries) == SelectSeq(entries, LAMBDA p : IsYaml(p) \/ IsRaw(p))

\* The files of a directory that load_catalog loads, in the order of read_dir.
Considered(fs, entries) ==
    SelectSeq(entries, LAMBDA p : IsYaml(p) \/ (IsRaw(p) /\ ~HasYaml(fs, p)))

\* load_catalog: a later file of the same code replaces an earlier one
Catalog(fs, entries) ==
    FoldLeft(LAMBDA out, p : LET c == LoadContract(fs, p)
                             IN  IF c.ok THEN (c.code :> c.name) @@ out ELSE out,
             << >>, Considered(fs, entries))

FilesIn(fs, dir) == {p \in DOMAIN fs : p.dir = dir}
Orders(fs, dir) == SetToSeqs(FilesIn(fs, dir))
-----------------------------------------------------------------------------
\* Whatever the order in which read_dir lists a directory, the catalog names a
\* code by its manifest and never by the raw source, when the source has the
\* manifest's stem and no two packages hold the same code (load_catalog,
\* "Prefer YAML as the named package").
CatalogNamesPackages(fs, dir) ==
    LET loads == [p \in FilesIn(fs, dir) |-> LoadContract(fs, p)]
        named == {p \in FilesIn(fs, dir) : IsYaml(p) /\ loads[p].ok}
        matched == \A p \in named : \A rel \in fs[p].source : rel.stem = p.stem
        distinct == \A p, q \in named : loads[p].code = loads[q].code => p = q
        rawElsewhere == \A p \in FilesIn(fs, dir) :
            IsRaw(p) /\ loads[p].ok /\ ~HasYaml(fs, p)
                => \A q \in named : loads[q].code # loads[p].code
    IN  (\A p \in FilesIn(fs, dir) : ~loads[p].loops) /\ matched /\ distinct /\ rawElsewhere
          => \A entries \in Orders(fs, dir) :
                \A p \in named : Catalog(fs, entries)[loads[p].code] = loads[p].name

\* A package that loads where it was written is named by the catalog of the
\* directory it was installed in (install_contract_files, "so a running node
\* can name it"), when its source is a raw file beside the manifest and of its stem.
InstalledIsNamed(fs, path, dest) ==
    LET c == LoadContract(fs, path)
        after == Install(fs, path, dest)
        beside == IsYaml(path) => \A rel \in fs[path].source :
                      rel.dir = << >> /\ rel.stem = path.stem /\ IsRaw(rel)
    IN  c.ok /\ beside /\ FilesIn(fs, dest) = {}
          => \A entries \in Orders(after, dest) :
                c.code \in DOMAIN Catalog(after, entries)
                  /\ Catalog(after, entries)[c.code] = c.name
=============================================================================
