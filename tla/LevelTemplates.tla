--------------------------- MODULE LevelTemplates ---------------------------
(***************************************************************************)
(* internal/authz/rbac: the Loader reads the level template from a file,   *)
(* at start and on every Reload, and Engines decide by the template they   *)
(* were built with.  Reloads may run concurrently, and an operator edits   *)
(* the file meanwhile.                                                     *)
(*                                                                         *)
(* A mask is the set of its bits.  A file is a set of entries, each a      *)
(* level's name and the characters of its mask; the digit 16 stands for a  *)
(* character that is not a hex digit.  A template is an object: the loader *)
(* and the engines hold pointers to it.                                    *)
(***************************************************************************)
EXTENDS Naturals, Sequences, FiniteSets, SequencesExt

CONSTANTS LevelFiles,       \* contents the configuration file may have
          Reloaders,        \* concurrent calls of Reload
          RBACMaxEdits,     \* bound on edits of the file
          RBACMaxReloads    \* bound on calls of Reload

ASSUME RBACAssumption ==
  /\ RBACMaxEdits \in Nat /\ RBACMaxReloads \in Nat
  /\ \A f \in LevelFiles : \A e \in f.entries : e.mask \in Seq(0..16)

VARIABLES levelFile,     \* the file: its content and the number of its edits
          templates,     \* every template object, in the order of creation
          loaderTpl,     \* the loader's template
          engineTpl,     \* the template of the engine built last
          reloading,     \* the calls of Reload under way
          overlapped,    \* history: a Reload stored while another had read
          reloadCalls

rbacVars == <<levelFile, templates, loaderTpl, engineTpl, reloading, overlapped, reloadCalls>>

RBACLevels == 0..7
RBACBits == 0..63

\* LevelType.DefaultMaxPermissions: 16 bits more per level, all 64 from LevelPro.
DefaultMaxPermissions(l) == 0..(IF l < 3 THEN 16 * l + 15 ELSE 63)

NewDefaultLevelTemplate == [l \in RBACLevels |-> DefaultMaxPermissions(l)]

-----------------------------------------------------------------------------
(* The file. *)

LevelNames ==
  <<{"test", "0", "level0"}, {"basic", "1", "level1"}, {"advanced", "2", "level2"},
    {"pro", "3", "level3"}, {"reserved4", "4", "level4"}, {"reserved5", "5", "level5"},
    {"reserved6", "6", "level6"}, {"reserved7", "7", "level7", "platform"}>>

\* 8 when the name is unknown.
parseLevelName(n) ==
  IF \E l \in RBACLevels : n \in LevelNames[l + 1]
  THEN CHOOSE l \in RBACLevels : n \in LevelNames[l + 1] ELSE 8

HexMaskOK(s) == Len(s) \in 1..16 /\ \A i \in DOMAIN s : s[i] < 16

\* The four bits of a digit.
DigitBits(d) == {k \in 0..3 : (d \div 2^k) % 2 = 1}

\* The optional prefix is removed already.  v << 4 | digit, in a uint64.
parseHexMask(s) ==
  LET v[i \in 0..Len(s)] ==
        IF i = 0 THEN {}
        ELSE ({b + 4 : b \in v[i - 1]} \cap RBACBits) \cup DigitBits(s[i]) IN
  v[Len(s)]

\* LoadLevelsFromFile and ParseLevels fail on a file that cannot be read or has
\* no level_max_permissions, BuildTemplate on an unknown name or a bad mask.
LevelFileOK(f) == f.readable /\ \A e \in f.entries : parseLevelName(e.name) # 8 /\ HexMaskOK(e.mask)

\* BuildTemplate: the entries are visited in the order of a Go map, so of two
\* names of one level any may come last.  A level without an entry gets the default.
BuildTemplate(f) ==
  LET named == {parseLevelName(e.name) : e \in f.entries}
      lastOf == {w \in [named -> f.entries] : \A l \in named : parseLevelName(w[l].name) = l} IN
  {[l \in RBACLevels |-> IF l \in named THEN parseHexMask(w[l].mask)
                          ELSE NewDefaultLevelTemplate[l]] : w \in lastOf}

-----------------------------------------------------------------------------
(* Loader and engines. *)

NotReloading == [pc |-> "idle", file |-> 0, tpl |-> <<>>]

NewTemplate(tpl, from) == [max |-> tpl, from |-> from]

\* NewLoader without a path; the engine is built with its template.
RBACInit ==
  /\ levelFile \in [content : LevelFiles, edits : {1}]
  /\ templates = <<NewTemplate(NewDefaultLevelTemplate, 0)>>
  /\ loaderTpl = 1
  /\ engineTpl = 1
  /\ reloading = [r \in Reloaders |-> NotReloading]
  /\ overlapped = FALSE
  /\ reloadCalls = 0

EditFile ==
  /\ levelFile.edits <= RBACMaxEdits
  /\ levelFile' \in [content : LevelFiles, edits : {levelFile.edits + 1}]
  /\ UNCHANGED <<templates, loaderTpl, engineTpl, reloading, overlapped, reloadCalls>>

\* Reload as far as the new template; nothing is locked.  When it fails, the
\* old template stays.
ReloadRead(r) ==
  /\ reloading[r].pc = "idle" /\ reloadCalls < RBACMaxReloads
  /\ reloadCalls' = reloadCalls + 1
  /\ \/ /\ LevelFileOK(levelFile.content)
        /\ \E tpl \in BuildTemplate(levelFile.content) :
             reloading' = [reloading EXCEPT ![r] =
               [pc |-> "store", file |-> levelFile.edits, tpl |-> tpl]]
     \/ ~LevelFileOK(levelFile.content) /\ UNCHANGED reloading
  /\ UNCHANGED <<levelFile, templates, loaderTpl, engineTpl, overlapped>>

ReloadStore_Stale(r) ==
  /\ reloading[r].pc = "store"
  /\ templates' = Append(templates, NewTemplate(reloading[r].tpl, reloading[r].file))
  /\ UNCHANGED <<loaderTpl, overlapped, levelFile, engineTpl, reloadCalls>>
  /\ reloading' = [reloading EXCEPT ![r] = NotReloading]

\* The end of Reload: the pointer is replaced, whoever stored meanwhile.
ReloadStore(r) ==
  /\ reloading[r].pc = "store"
  /\ templates' = Append(templates, NewTemplate(reloading[r].tpl, reloading[r].file))
  /\ loaderTpl' = Len(templates')
  /\ overlapped' = (overlapped \/ \E q \in Reloaders \ {r} : reloading[q].pc = "store")
  /\ reloading' = [reloading EXCEPT ![r] = NotReloading]
  /\ UNCHANGED <<levelFile, engineTpl, reloadCalls>>

\* NewEngine(loader.Template()).
NewEngine ==
  /\ engineTpl' = loaderTpl
  /\ UNCHANGED <<levelFile, templates, loaderTpl, reloading, overlapped, reloadCalls>>

\* LevelTemplate.Set on the loader's template, which engines may share; once in
\* a behaviour, for LevelPro.
SetLevel ==
  /\ \A t \in DOMAIN templates : templates[t].max[3] # {}
  /\ templates' = [templates EXCEPT ![loaderTpl].max[3] = {}]
  /\ UNCHANGED <<levelFile, loaderTpl, engineTpl, reloading, overlapped, reloadCalls>>

RBACNext ==
  \/ EditFile \/ NewEngine \/ SetLevel
  \/ \E r \in Reloaders : ReloadRead(r) \/ ReloadStore(r)

-----------------------------------------------------------------------------
(* Decisions of an engine with template t. *)

maxFor(t, l) == templates[t].max[l]

Check(t, b, l) == b \in RBACBits /\ l \in RBACLevels /\ b \in maxFor(t, l)

CheckMask(t, p, l) == l \in RBACLevels /\ p \ maxFor(t, l) = {}

AllowedBits(t, l) == {b \in RBACBits : b \in maxFor(t, l)}

HasAny(t, p, l) == p \cap maxFor(t, l) # {}

-----------------------------------------------------------------------------

\* The number that the digits s write in base 16 has bit b.
HexBit(s, b) == b < 4 * Len(s) /\ b % 4 \in DigitBits(s[Len(s) - b \div 4])

\* What file f says of level l is what template t allows there.
DecidesBy(t, f, l) ==
  LET said == {e \in f.entries : parseLevelName(e.name) = l} IN
  \/ said = {} /\ AllowedBits(t, l) = DefaultMaxPermissions(l)
  \/ \E e \in said : \A b \in RBACBits : Check(t, b, l) <=> HexBit(e.mask, b)

\* The defaults are what a file without entries says.
NoEntries == [readable |-> TRUE, entries |-> {}]
GoodFiles == {f \in LevelFiles : LevelFileOK(f)} \cup {NoEntries}

\* An engine never decides by a mixture: what it allows at the levels nobody
\* has Set is what one file said, or the defaults, at every level at once,
\* whatever is edited and reloaded meanwhile.
EngineDecidesByOneFile ==
  \/ templates[engineTpl].max = NewDefaultLevelTemplate
  \/ \E f \in GoodFiles : \A l \in RBACLevels :
       maxFor(engineTpl, l) = {} \/ DecidesBy(engineTpl, f, l)

\* Only a Reload that overlaps another brings an older file back.
NewestReloadWins ==
  ~overlapped => \A t \in DOMAIN templates : templates[t].from <= templates[loaderTpl].from

\* Reloads are atomic: every engine decides by one file, and the loader hands
\* out the newest one.
ReloadIsAtomic == EngineDecidesByOneFile /\ NewestReloadWins

-----------------------------------------------------------------------------
(* The inductive invariant. *)

\* Some file, or the defaults, gave this template its masks; only LevelPro may
\* have been Set since.
FromOneFile(max) ==
  /\ max \in [RBACLevels -> SUBSET RBACBits]
  /\ \E f \in GoodFiles : \E tpl \in BuildTemplate(f) : \A l \in RBACLevels :
       max[l] = tpl[l] \/ (l = 3 /\ max[l] = {})

Template == [max : [RBACLevels -> SUBSET RBACBits], from : Nat]

RBACTypeOK ==
  /\ levelFile \in [content : LevelFiles, edits : Nat]
  /\ templates \in Seq(Template)
  /\ loaderTpl \in DOMAIN templates /\ engineTpl \in DOMAIN templates
  /\ DOMAIN reloading = Reloaders
  /\ \A r \in Reloaders : reloading[r].file \in Nat
  /\ overlapped \in BOOLEAN

\* Templates are read whole and nobody writes into one but Set.
TemplatesInv ==
  /\ \A t \in DOMAIN templates : FromOneFile(templates[t].max)
  /\ \A r \in Reloaders : reloading[r].pc = "store" => FromOneFile(reloading[r].tpl)

\* No template is newer than the file.  Without overlap, a reload under way has
\* read what is at least as new as every template.
NewestInv ==
  /\ \A t \in DOMAIN templates : templates[t].from <= levelFile.edits
  /\ \A r \in Reloaders : reloading[r].file <= levelFile.edits
  /\ \A r \in Reloaders, t \in DOMAIN templates :
       ~overlapped /\ reloading[r].pc = "store" => templates[t].from <= reloading[r].file

RBACInv == RBACTypeOK /\ TemplatesInv /\ NewestInv /\ NewestReloadWins

RBACSpec == RBACInit /\ [][RBACNext]_rbacVars
=============================================================================
