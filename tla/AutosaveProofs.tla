--------------------------- MODULE AutosaveProofs ---------------------------
(***************************************************************************)
(* What a boot finds, for any number of saves, of sequence files, of       *)
(* crashes and of failing operations, wherever they fall in the cycle.     *)
(*                                                                         *)
(* A part of the invariant says where the cycle is and what it may rely on *)
(* there; the others say what each file holds then.                        *)
(***************************************************************************)
EXTENDS Autosave, WellFoundedInduction, TLAPS

WriteSteps == {"write", "sync", "check", "rename"}     \* the temporary file is the save's
Steps == WriteSteps \cup {"boot", "idle", "open", "dirsync", "copy", "publish", "seqCopy"}

WriteTmps == \E how \in {"full", "lossy", "short"} : WriteTmp(how)
SyncTmps == \E ok \in BOOLEAN : SyncTmp(ok)
SyncDirs == \E ok \in BOOLEAN : SyncDir(ok)

Types ==
    /\ files \in [Files -> Contents] /\ maybe \in [Files -> SUBSET Contents]
    /\ \A f \in Files : files[f] \in maybe[f]
    /\ tmp \in Contents /\ restored \in Contents
    /\ pc \in Steps /\ dst \in Files /\ savb \in {"Ok", "Rewritten"}
    /\ gen \in 0 .. MaxSaves /\ done \in 0 .. gen /\ durable \in 0 .. done /\ clock \in Nat
    /\ slot \in NoSlot .. NumSeq - 1
    /\ inSeq \in BOOLEAN /\ saved \in BOOLEAN
    /\ damage \in 0 .. MaxDamage

\* Where the cycle is, what its temporary file is by then, and that a slot's
\* copy is under way only for the slot in memory.
Cycle ==
    /\ pc = "seqCopy" => inSeq
    /\ inSeq => slot # NoSlot
    /\ pc \in {"copy", "publish"} => dst # Sav
    /\ (dst \in Slots /\ pc \in WriteSteps \cup {"open", "dirsync", "copy", "publish"})
            => slot # NoSlot /\ dst = Slot(slot)
    /\ pc \in WriteSteps => tmp.gen = gen
    /\ (pc \in {"check", "rename"} /\ dst = Sav) => tmp.synced \/ gen \in unsynced
    /\ pc = "rename" => tmp.whole
    /\ pc = "dirsync" => files[dst].whole /\ files[dst].gen = gen

-----------------------------------------------------------------------------
\* The names of the files are told apart.
LEMMA FileFacts ==
    /\ Sav \in Files /\ SavB \in Files /\ Slots \subseteq Files
    /\ Sav # SavB /\ Sav \notin Slots /\ SavB \notin Slots
    /\ \A f \in Files : f = Sav \/ f = SavB \/ f \in Slots
    /\ \A i \in 0 .. NumSeq - 1 : Slot(i) \in Slots
    /\ \A f \in Slots : \E i \in 0 .. NumSeq - 1 : f = Slot(i)
    /\ \A i, j : Slot(i) = Slot(j) => i = j
BY DEF Sav, SavB, Slots, Slot, Files

\* A set of naturals has a least member.
LEMMA Least ==
    ASSUME NEW S, S \subseteq Nat, S # {}
    PROVE  \E x \in S : \A y \in S : x <= y
<1>1. PICK x \in S : \A y \in S : <<y, x>> \notin OpToRel(<, Nat)
  BY WFMin, NatLessThanWellFounded, Zenon
<1>2. \A y \in S : ~(y < x) BY <1>1 DEF OpToRel
<1>3. \A y \in S : x <= y BY <1>2
<1> QED BY <1>3

\* The slot to begin at after a restart is one of the slots, and either empty
\* or the oldest.
LEMMA OldestSlot ==
    ASSUME Types, NumSeq \in Nat, NumSeq > 0
    PROVE  /\ oldest_seq_slot \in 0 .. NumSeq - 1
           /\ \/ files[Slot(oldest_seq_slot)] = None
              \/ \A j \in 0 .. NumSeq - 1 : files[Slot(oldest_seq_slot)].at <= files[Slot(j)].at
<1> DEFINE missing == {i \in 0 .. NumSeq - 1 : files[Slot(i)] = None}
<1>1. CASE missing # {}
  <2>1. missing \subseteq Nat OBVIOUS
  <2>2. \E i \in missing : \A j \in missing : i <= j BY <1>1, <2>1, Least
  <2> DEFINE m == CHOOSE i \in missing : \A j \in missing : i <= j
  <2>3. m \in missing BY <2>2
  <2>4. oldest_seq_slot = m BY <1>1 DEF oldest_seq_slot
  <2> HIDE DEF m
  <2> QED BY <2>3, <2>4
<1>2. CASE missing = {}
  <2> DEFINE Ages == {files[Slot(i)].at : i \in 0 .. NumSeq - 1}
             Old(i) == \A j \in 0 .. NumSeq - 1 : files[Slot(i)].at <= files[Slot(j)].at
  <2>1. \A i \in 0 .. NumSeq - 1 : files[Slot(i)].at \in Nat
    BY FileFacts DEF Types, Contents
  <2>2. Ages \subseteq Nat BY <2>1
  <2>3. files[Slot(0)].at \in Ages OBVIOUS
  <2>4. PICK a \in Ages : \A b \in Ages : a <= b BY <2>2, <2>3, Least
  <2>5. PICK k \in 0 .. NumSeq - 1 : a = files[Slot(k)].at OBVIOUS
  <2>6. Old(k) BY <2>4, <2>5
  <2> DEFINE m == CHOOSE i \in 0 .. NumSeq - 1 : Old(i)
  <2>7. m \in 0 .. NumSeq - 1 /\ Old(m) BY <2>6
  <2>8. oldest_seq_slot = m BY <1>2 DEF oldest_seq_slot
  <2> HIDE DEF m
  <2> QED BY <2>7, <2>8
<1> QED BY <1>1, <1>2

\* A boot restores the .sav if it is whole, else the .savB if that is, else a
\* sequence file, or nothing.
LEMMA BootFinds ==
    ASSUME Types
    PROVE  /\ fopen_and_check \in Contents
           /\ Whole(files[Sav]) => fopen_and_check = files[Sav]
           /\ (~Whole(files[Sav]) /\ Whole(files[SavB])) => fopen_and_check = files[SavB]
           /\ fopen_and_check = None \/ \E f \in Files : fopen_and_check = files[f]
<1> DEFINE trusted == {f \in Files : check_restore_file(f)}
           seq == trusted \cap Slots
           Newest(f) == \A g \in seq : files[g].at <= files[f].at
           m == CHOOSE f \in seq : Newest(f)
<1>1. fopen_and_check = IF Sav \in trusted THEN files[Sav]
                        ELSE IF SavB \in trusted THEN files[SavB]
                        ELSE IF seq = {} THEN None ELSE files[m]
  BY DEF fopen_and_check
<1>2. Sav \in trusted <=> Whole(files[Sav]) BY FileFacts DEF check_restore_file
<1>3. SavB \in trusted <=> Whole(files[SavB]) BY FileFacts DEF check_restore_file
<1>4. None \in Contents
  <2>1. clock \in Nat /\ MaxSaves \in Nat BY BoundsAssumption DEF Types
  <2> QED BY <2>1 DEF None, Contents
<1>5. seq # {} => m \in seq
  <2> SUFFICES ASSUME seq # {} PROVE m \in seq OBVIOUS
  <2> DEFINE Back == {clock - files[f].at : f \in seq}
  <2>1. \A f \in seq : files[f].at \in 0 .. clock BY FileFacts DEF Types, Contents
  <2>2. clock \in Nat BY DEF Types
  <2>3. Back \subseteq Nat BY <2>1, <2>2
  <2>4. Back # {} OBVIOUS
  <2>5. PICK a \in Back : \A b \in Back : a <= b BY <2>3, <2>4, Least
  <2>6. PICK f \in seq : a = clock - files[f].at OBVIOUS
  <2>7. \A g \in seq : clock - files[f].at <= clock - files[g].at BY <2>5, <2>6
  <2>8. Newest(f) BY <2>1, <2>2, <2>7
  <2> QED BY <2>8
<1>6. seq \subseteq Files BY FileFacts
<1> HIDE DEF trusted, seq, m
<1>7. fopen_and_check \in Contents BY <1>1, <1>4, <1>5, <1>6, FileFacts DEF Types
<1>8. fopen_and_check = None \/ \E f \in Files : fopen_and_check = files[f] BY <1>1, <1>5, <1>6, FileFacts
<1> QED BY <1>1, <1>2, <1>3, <1>7, <1>8

-----------------------------------------------------------------------------
\* Contents written before stay contents as the clock goes on.
LEMMA ContentsGrow ==
    ASSUME Types, clock' \in {clock, clock + 1}
    PROVE  clock' \in Nat /\ \A c \in Contents : c \in Contents'
<1>1. clock \in Nat BY DEF Types
<1>2. clock' \in Nat BY <1>1
<1>3. \A c \in Contents : c \in [gen : 0 .. MaxSaves, whole : BOOLEAN, lost : BOOLEAN, synced : BOOLEAN, at : 0 .. clock']
  BY <1>1, <1>2 DEF Contents
<1> QED BY <1>2, <1>3 DEF Contents

\* A step that leaves the files alone.
LEMMA FilesAlone ==
    ASSUME Types, UNCHANGED <<files, maybe, restored>>, clock' \in {clock, clock + 1}, tmp' \in Contents',
           pc' \in Steps, dst' \in Files, savb' \in {"Ok", "Rewritten"},
           gen' \in 0 .. MaxSaves, done' \in 0 .. gen', durable' \in 0 .. done', slot' \in NoSlot .. NumSeq - 1,
           inSeq' \in BOOLEAN, saved' \in BOOLEAN, damage' = damage
    PROVE  Types'
<1>1. clock' \in Nat /\ \A c \in Contents : c \in Contents' BY ContentsGrow
<1>2. files' \in [Files -> Contents'] BY <1>1 DEF Types
<1>3. maybe' \in [Files -> SUBSET Contents'] BY <1>1 DEF Types
<1>4. \A f \in Files : files'[f] \in maybe'[f] BY DEF Types
<1>5. restored' \in Contents' BY <1>1 DEF Types
<1>6. damage' \in 0 .. MaxDamage BY DEF Types
<1> QED BY <1>1, <1>2, <1>3, <1>4, <1>5, <1>6 DEF Types

\* Nothing is there.
LEMMA NoneContents ==
    ASSUME Types
    PROVE  None \in Contents /\ (clock' \in {clock, clock + 1} => None \in Contents')
<1>1. clock \in Nat /\ MaxSaves \in Nat BY BoundsAssumption DEF Types
<1>2. None \in Contents BY <1>1 DEF None, Contents
<1> QED BY <1>2, ContentsGrow

\* The names are as the invariant says after each step of the cycle.
LEMMA WriteTypes ==
    ASSUME Types,
           Save \/ WriteFails \/ OpenTmp \/ WriteTmps \/ SyncTmps \/ CheckTmp
    PROVE  Types'
<1>1. /\ gen \in 0 .. MaxSaves /\ done \in 0 .. gen /\ durable \in 0 .. done /\ slot \in NoSlot .. NumSeq - 1
      /\ tmp \in Contents /\ dst \in Files /\ savb \in {"Ok", "Rewritten"} /\ clock \in Nat /\ MaxSaves \in Nat
  BY BoundsAssumption DEF Types
<1>2. pc \in Steps /\ inSeq \in BOOLEAN /\ saved \in BOOLEAN BY DEF Types
<1>3. CASE Save
  <2>1. /\ UNCHANGED <<files, maybe, restored, clock, tmp, done, durable, slot, damage, inSeq, saved>>
        /\ pc' = "open" /\ dst' \in {Sav, SavB} /\ savb' \in {"Ok", "Rewritten"} /\ gen' = gen + 1 /\ gen < MaxSaves
    BY <1>3 DEF Save, ensure_savb, WriteTo, counts
  <2>2. gen' \in 0 .. MaxSaves /\ done' \in 0 .. gen' BY <2>1, <1>1
  <2>3. tmp' \in Contents' BY <2>1, <1>1, ContentsGrow
  <2> QED BY <2>1, <2>2, <2>3, <1>1, <1>2, FileFacts, FilesAlone DEF Steps
<1>4. CASE WriteFails
  <2>1. /\ UNCHANGED <<files, maybe, restored, clock, done, durable, slot, damage, saved, dst, savb, gen>>
        /\ pc' \in {"idle", "seqCopy"} /\ inSeq' \in BOOLEAN /\ tmp' \in {tmp, None}
    BY <1>2, <1>4 DEF WriteFails, Fail, GiveUp, Idle
  <2>2. tmp' \in Contents' BY <2>1, <1>1, NoneContents, ContentsGrow
  <2> QED BY <2>1, <2>2, <1>1, <1>2, FilesAlone DEF Steps
<1>5. CASE OpenTmp
  <2>1. /\ UNCHANGED <<files, maybe, restored, done, durable, slot, damage, saved, dst, savb, gen, inSeq>>
        /\ pc' = "write" /\ clock' = clock + 1
        /\ tmp' = [gen |-> gen, whole |-> FALSE, lost |-> FALSE, synced |-> FALSE, at |-> clock + 1]
    BY <1>5 DEF OpenTmp
  <2>2. tmp' \in Contents' BY <2>1, <1>1 DEF Contents
  <2> QED BY <2>1, <2>2, <1>1, <1>2, FilesAlone DEF Steps, WriteSteps
<1>6. ASSUME NEW how \in {"full", "lossy", "short"}, WriteTmp(how) PROVE Types'
  <2>1. /\ UNCHANGED <<files, maybe, restored, done, durable, slot, damage, saved, dst, savb, gen, inSeq, clock>>
        /\ pc' = "sync" /\ tmp' = [tmp EXCEPT !.whole = how # "short", !.lost = how = "lossy"]
    BY <1>6 DEF WriteTmp
  <2>2. tmp' \in Contents' BY <2>1, <1>1 DEF Contents
  <2> QED BY <2>1, <2>2, <1>1, <1>2, FilesAlone DEF Steps, WriteSteps
<1>7. ASSUME NEW ok \in BOOLEAN, SyncTmp(ok) PROVE Types'
  <2>1. /\ UNCHANGED <<files, maybe, restored, done, durable, slot, damage, saved, dst, savb, gen, inSeq, clock>>
        /\ pc' = "check" /\ tmp' = [tmp EXCEPT !.synced = ok]
    BY <1>7 DEF SyncTmp
  <2>2. tmp' \in Contents' BY <2>1, <1>1 DEF Contents
  <2> QED BY <2>1, <2>2, <1>1, <1>2, FilesAlone DEF Steps, WriteSteps
<1>8. CASE CheckTmp
  <2>1. /\ UNCHANGED <<files, maybe, restored, done, durable, slot, damage, saved, dst, savb, gen, clock>>
        /\ pc' \in {"idle", "seqCopy", "rename"} /\ inSeq' \in BOOLEAN /\ tmp' \in {tmp, None}
    BY <1>2, <1>8 DEF CheckTmp, GiveUp, Idle, counts
  <2>2. tmp' \in Contents' BY <2>1, <1>1, NoneContents, ContentsGrow
  <2> QED BY <2>1, <2>2, <1>1, <1>2, FilesAlone DEF Steps, WriteSteps
<1> QED BY <1>3, <1>4, <1>5, <1>6, <1>7, <1>8 DEF WriteTmps, SyncTmps

\* The same after the steps of a copy, of do_seq and of a crash.
LEMMA CopyTypes ==
    ASSUME Types, Cycle, Copy \/ CopyFails \/ do_seq \/ SeqCopy \/ Crash
    PROVE  Types'
<1>1. /\ gen \in 0 .. MaxSaves /\ done \in 0 .. gen /\ durable \in 0 .. done /\ slot \in NoSlot .. NumSeq - 1
      /\ tmp \in Contents /\ dst \in Files /\ savb \in {"Ok", "Rewritten"} /\ clock \in Nat
      /\ MaxSaves \in Nat /\ NumSeq \in Nat
  BY BoundsAssumption DEF Types
<1>2. pc \in Steps /\ inSeq \in BOOLEAN /\ saved \in BOOLEAN BY DEF Types
<1>3. files[Sav] \in Contents BY FileFacts DEF Types
<1>4. CASE Copy
  <2>1. /\ UNCHANGED <<files, maybe, restored, done, durable, slot, damage, saved, dst, savb, gen, inSeq>>
        /\ pc' = "publish" /\ clock' = clock + 1
        /\ tmp' = [files[Sav] EXCEPT !.synced = FALSE, !.at = clock + 1]
    BY <1>4 DEF Copy
  <2>2. PICK c \in Contents : c = files[Sav] BY <1>3
  <2>3. tmp' = [gen |-> c.gen, whole |-> c.whole, lost |-> c.lost, synced |-> FALSE, at |-> clock + 1]
    BY <2>1, <2>2 DEF Contents
  <2>4. c.gen \in 0 .. MaxSaves /\ c.whole \in BOOLEAN /\ c.lost \in BOOLEAN BY DEF Contents
  <2>5. clock + 1 \in 0 .. clock' BY <2>1, <1>1
  <2>6. tmp' \in Contents' BY <2>3, <2>4, <2>5, Zenon DEF Contents
  <2> QED BY <2>1, <2>6, <1>1, <1>2, FilesAlone DEF Steps
<1>5. CASE CopyFails
  <2>1. /\ UNCHANGED <<files, maybe, restored, clock, done, durable, slot, damage, saved, dst, savb, gen>>
        /\ pc' \in {"idle", "seqCopy", "open"} /\ inSeq' \in BOOLEAN /\ tmp' = None
    BY <1>2, <1>5 DEF CopyFails, Idle
  <2>2. tmp' \in Contents' BY <2>1, NoneContents
  <2> QED BY <2>1, <2>2, <1>1, <1>2, FilesAlone DEF Steps
<1>6. CASE do_seq
  <2>1. /\ UNCHANGED <<files, maybe, restored, clock, done, durable, damage, saved, gen, tmp>>
        /\ pc' \in {"open", "seqCopy"} /\ inSeq' = TRUE /\ dst' \in {dst, Sav, SavB}
        /\ savb' \in {"Ok", "Rewritten"} /\ slot' \in {slot, oldest_seq_slot} /\ NumSeq > 0
    BY <1>1, <1>6 DEF do_seq, ensure_savb, WriteTo
  <2>2. slot' \in NoSlot .. NumSeq - 1 BY <2>1, <1>1, OldestSlot DEF NoSlot
  <2>3. tmp' \in Contents' BY <2>1, <1>1, ContentsGrow
  <2> QED BY <2>1, <2>2, <2>3, <1>1, <1>2, FileFacts, FilesAlone DEF Steps
<1>7. CASE SeqCopy
  <2>1. /\ UNCHANGED <<files, maybe, restored, clock, done, durable, slot, damage, saved, savb, gen, tmp, inSeq>>
        /\ pc = "seqCopy" /\ pc' = "copy" /\ dst' = Slot(slot)
    BY <1>7 DEF SeqCopy, counts
  <2>2. slot \in 0 .. NumSeq - 1 BY <2>1, <1>1 DEF Cycle, NoSlot
  <2>3. dst' \in Files BY <2>1, <2>2, FileFacts
  <2>4. tmp' \in Contents' BY <2>1, <1>1, ContentsGrow
  <2> QED BY <2>1, <2>3, <2>4, <1>1, <1>2, FilesAlone DEF Steps
<1>8. CASE Crash
  <2>1. /\ UNCHANGED <<files, maybe, restored, clock, done, durable, damage, savb, gen, dst>>
        /\ pc' = "boot" /\ inSeq' = FALSE /\ saved' = FALSE /\ slot' = NoSlot /\ tmp' = None
    BY <1>8 DEF Crash, Restarted
  <2>2. slot' \in NoSlot .. NumSeq - 1 BY <2>1, <1>1 DEF NoSlot
  <2>3. tmp' \in Contents' BY <2>1, NoneContents
  <2> QED BY <2>1, <2>2, <2>3, <1>1, <1>2, FilesAlone DEF Steps
<1> QED BY <1>4, <1>5, <1>6, <1>7, <1>8

\* The temporary file takes the place of one.
LEMMA RenameFiles ==
    ASSUME Types, NEW f \in Files, RenameTo(f), UNCHANGED clock
    PROVE  /\ files' \in [Files -> Contents'] /\ maybe' \in [Files -> SUBSET Contents']
           /\ \A g \in Files : files'[g] = IF g = f THEN tmp ELSE files[g]
           /\ \A g \in Files : maybe'[g] = IF g = f THEN maybe[f] \cup {tmp} ELSE maybe[g]
           /\ \A g \in Files : files'[g] \in maybe'[g]
           /\ tmp' = None
<1>1. /\ files' = [files EXCEPT ![f] = tmp] /\ maybe' = [maybe EXCEPT ![f] = maybe[f] \cup {tmp}]
      /\ tmp' = None
  BY DEF RenameTo
<1>2. /\ files \in [Files -> Contents] /\ maybe \in [Files -> SUBSET Contents] /\ tmp \in Contents
      /\ \A g \in Files : files[g] \in maybe[g]
  BY DEF Types
<1>3. Contents' = Contents BY DEF Contents
<1>4. maybe[f] \cup {tmp} \in SUBSET Contents BY <1>2
<1>5. files' \in [Files -> Contents] /\ maybe' \in [Files -> SUBSET Contents] BY <1>1, <1>2, <1>4
<1>6. \A g \in Files : files'[g] = IF g = f THEN tmp ELSE files[g] BY <1>1, <1>2
<1>7. \A g \in Files : maybe'[g] = IF g = f THEN maybe[f] \cup {tmp} ELSE maybe[g] BY <1>1, <1>2
<1>8. \A g \in Files : files'[g] \in maybe'[g] BY <1>2, <1>6, <1>7
<1> QED BY <1>1, <1>3, <1>5, <1>6, <1>7, <1>8

\* After a loss of power each name has what one of its contents left.
LEMMA PowerFiles ==
    ASSUME Types, LosePower
    PROVE  /\ files' \in [Files -> Contents'] /\ maybe' \in [Files -> SUBSET Contents']
           /\ \A f \in Files : maybe'[f] = {files'[f]}
           /\ \A f \in Files : \E c \in maybe[f] : files'[f] \in Survives(c)
<1>1. PICK a \in Left(Sav), b \in Left(SavB), q \in [Slots -> UNION {Left(f) : f \in Slots}] :
        /\ \A f \in Slots : q[f] \in Left(f)
        /\ files' = [f \in Files |-> CASE f = Sav -> a [] f = SavB -> b [] f \in Slots -> q[f]]
        /\ maybe' = [f \in Files |-> {files'[f]}]
  BY DEF LosePower
<1>12. files'[Sav] = a /\ files'[SavB] = b /\ \A f \in Slots : files'[f] = q[f] BY <1>1, FileFacts
<1>13. \A f \in Files : files'[f] \in Left(f) BY <1>1, <1>12, FileFacts
<1>2. \A f \in Files : \E c \in maybe[f] : files'[f] \in Survives(c) BY <1>13 DEF Left
<1>3. \A f \in Files : maybe'[f] = {files'[f]} BY <1>1
<1>4. clock' = clock BY DEF LosePower, Restarted
<1>5. Contents' = Contents BY <1>4 DEF Contents
<1>6. \A c \in Contents : \A w \in {c.whole, FALSE} : [c EXCEPT !.whole = w, !.synced = TRUE] \in Contents
  BY DEF Contents
<1>7. \A c \in Contents : \A d \in Survives(c) : d \in Contents BY <1>6 DEF Survives
<1>8. \A f \in Files : \A c \in maybe[f] : c \in Contents BY DEF Types
<1>9. \A f \in Files : files'[f] \in Contents BY <1>2, <1>7, <1>8
<1>10. files' \in [Files -> Contents] BY <1>1, <1>9
<1>11. maybe' \in [Files -> SUBSET Contents] BY <1>1, <1>9
<1> QED BY <1>2, <1>3, <1>5, <1>10, <1>11

\* Damage leaves a name without a file, or with a torn one of the same age.
LEMMA DamageFiles ==
    ASSUME Types, NEW f \in Files, Damage(f)
    PROVE  /\ files' \in [Files -> Contents'] /\ maybe' \in [Files -> SUBSET Contents']
           /\ \A g \in Files : g # f => files'[g] = files[g] /\ maybe'[g] = maybe[g]
           /\ maybe'[f] = {files'[f]}
           /\ files'[f] = None \/ (files'[f].at = files[f].at /\ files'[f] # None)
<1>1. PICK c \in {None, [files[f] EXCEPT !.whole = FALSE]} :
        files' = [files EXCEPT ![f] = c] /\ maybe' = [maybe EXCEPT ![f] = {c}]
  BY DEF Damage
<1>2. clock' = clock BY DEF Damage
<1>3. Contents' = Contents BY <1>2 DEF Contents
<1>4. files[f] \in Contents BY DEF Types
<1>5. [files[f] EXCEPT !.whole = FALSE] \in Contents BY <1>4 DEF Contents
<1>6. c \in Contents BY <1>1, <1>5, NoneContents
<1>7. files' \in [Files -> Contents] /\ maybe' \in [Files -> SUBSET Contents]
  BY <1>1, <1>6 DEF Types
<1>8. \A g \in Files : g # f => files'[g] = files[g] /\ maybe'[g] = maybe[g] BY <1>1 DEF Types
<1>9. files'[f] = c /\ maybe'[f] = {c} BY <1>1 DEF Types
<1>10. c = None \/ (c.at = files[f].at /\ c # None)
  <2>1. CASE c = None BY <2>1
  <2>2. CASE c = [files[f] EXCEPT !.whole = FALSE] /\ c # None BY <2>2, <1>4 DEF Contents
  <2> QED BY <2>1, <2>2, <1>1
<1> QED BY <1>3, <1>7, <1>8, <1>9, <1>10

\* The types after the steps that change the files, and after a boot.
LEMMA ChangeTypes ==
    ASSUME Types, Cycle,
           Rename \/ SyncDirs \/ Publish \/ LosePower \/ (\E f \in Files : Damage(f)) \/ Boot
    PROVE  Types'
<1>1. /\ gen \in 0 .. MaxSaves /\ done \in 0 .. gen /\ durable \in 0 .. done /\ slot \in NoSlot .. NumSeq - 1 /\ damage \in 0 .. MaxDamage
      /\ tmp \in Contents /\ dst \in Files /\ savb \in {"Ok", "Rewritten"} /\ clock \in Nat
      /\ MaxSaves \in Nat /\ NumSeq \in Nat /\ MaxDamage \in Nat
  BY BoundsAssumption DEF Types
<1>2. pc \in Steps /\ inSeq \in BOOLEAN /\ saved \in BOOLEAN BY DEF Types
<1>3. clock' = clock
  BY DEF Rename, SyncDirs, SyncDir, Overlooked, Publish, LosePower, Damage, Boot, Restarted, counts
<1>4. Contents' = Contents BY <1>3 DEF Contents
<1>5. None \in Contents BY NoneContents
<1>6. slot \in 0 .. NumSeq - 1 => (NextSlot => slot' \in NoSlot .. NumSeq - 1)
  BY <1>1 DEF NextSlot, NoSlot
<1>7. CASE Rename
  <2>1. /\ UNCHANGED <<dst, savb, inSeq, gen, slot, saved, restored, done, durable, damage>>
        /\ pc' = "dirsync" /\ RenameTo(dst)
    BY <1>7 DEF Rename, counts
  <2>2. restored' \in Contents' BY <2>1, <1>4 DEF Types
  <2>3. tmp' \in Contents' BY <2>1, <1>4, <1>5 DEF RenameTo
  <2> QED BY <2>1, <2>2, <2>3, <1>1, <1>2, <1>3, RenameFiles DEF Types, Steps
<1>8. CASE Publish
  <2>1. /\ UNCHANGED <<dst, savb, gen, saved, restored, done, durable, damage>>
        /\ pc = "publish" /\ pc' \in {"idle", "seqCopy"} /\ inSeq' \in BOOLEAN /\ RenameTo(dst)
        /\ slot' = slot \/ (dst \in Slots /\ NextSlot)
    BY <1>2, <1>8 DEF Publish, Idle, counts
  <2>2. restored' \in Contents' BY <2>1, <1>4 DEF Types
  <2>3. tmp' \in Contents' BY <2>1, <1>4, <1>5 DEF RenameTo
  <2>4. dst \in Slots => slot \in 0 .. NumSeq - 1 BY <2>1, <1>1 DEF Cycle, NoSlot
  <2>5. slot' \in NoSlot .. NumSeq - 1 BY <2>1, <2>4, <1>1, <1>6
  <2> QED BY <2>1, <2>2, <2>3, <2>5, <1>1, <1>2, <1>3, RenameFiles DEF Types, Steps
<1>9. CASE SyncDirs
  <2>1. /\ UNCHANGED <<files, tmp, savb, gen, restored, damage>>
        /\ pc = "dirsync" /\ maybe' \in {maybe, [f \in Files |-> {files[f]}]}
        /\ \E ok \in BOOLEAN : Written(ok)
    BY <1>9 DEF SyncDirs, SyncDir, Overlooked
  <2>2. /\ pc' \in {"open", "copy", "seqCopy", "idle"} /\ inSeq' \in BOOLEAN /\ saved' \in BOOLEAN
        /\ dst' \in {dst, Sav, SavB}
        /\ (done' = done /\ durable' = durable) \/ (done' = gen /\ durable' \in {durable, gen})
        /\ slot' = slot \/ (dst \in Slots /\ NextSlot)
    BY <2>1, <1>2 DEF Written, WriteTo, Idle
  <2>3. dst \in Slots => slot \in 0 .. NumSeq - 1 BY <2>1, <1>1 DEF Cycle, NoSlot
  <2>4. slot' \in NoSlot .. NumSeq - 1 BY <2>2, <2>3, <1>1, <1>6
  <2>5. maybe' \in [Files -> SUBSET Contents'] BY <2>1, <1>4 DEF Types
  <2>6. \A f \in Files : files'[f] \in maybe'[f] BY <2>1 DEF Types
  <2>7. done' \in 0 .. gen' /\ durable' \in 0 .. done' BY <2>1, <2>2, <1>1
  <2>8. dst' \in Files BY <2>2, <1>1, FileFacts
  <2>9. pc' \in Steps BY <2>2 DEF Steps
  <2>10. files' \in [Files -> Contents'] /\ tmp' \in Contents' /\ restored' \in Contents'
    BY <2>1, <1>4 DEF Types
  <2> QED BY <2>1, <2>2, <2>4, <2>5, <2>6, <2>7, <2>8, <2>9, <2>10, <1>1, <1>3 DEF Types
<1>10. CASE LosePower
  <2>1. /\ UNCHANGED <<dst, savb, gen, restored, durable, damage>> /\ done' = durable
        /\ pc' = "boot" /\ inSeq' = FALSE /\ saved' = FALSE /\ slot' = NoSlot /\ tmp' = None
    BY <1>10 DEF LosePower, Restarted
  <2>2. /\ files' \in [Files -> Contents'] /\ maybe' \in [Files -> SUBSET Contents']
        /\ \A f \in Files : files'[f] \in maybe'[f]
    BY <1>10, PowerFiles
  <2>3. slot' \in NoSlot .. NumSeq - 1 BY <2>1, <1>1 DEF NoSlot
  <2>4. tmp' \in Contents' /\ restored' \in Contents' BY <2>1, <1>4, <1>5 DEF Types
  <2>5. pc' \in Steps BY <2>1 DEF Steps
  <2>6. done' \in 0 .. gen' /\ durable' \in 0 .. done' BY <2>1, <1>1
  <2> QED BY <2>1, <2>2, <2>3, <2>4, <2>5, <2>6, <1>1, <1>3 DEF Types
<1>11. ASSUME NEW f \in Files, Damage(f) PROVE Types'
  <2>1. /\ UNCHANGED <<tmp, pc, dst, savb, inSeq, gen, slot, saved, restored, done, durable>>
        /\ damage' = damage + 1 /\ damage < MaxDamage
    BY <1>11 DEF Damage
  <2>2. /\ files' \in [Files -> Contents'] /\ maybe' \in [Files -> SUBSET Contents']
        /\ \A g \in Files : g # f => files'[g] = files[g] /\ maybe'[g] = maybe[g]
        /\ maybe'[f] = {files'[f]}
    BY <1>11, DamageFiles
  <2>3. \A g \in Files : files'[g] \in maybe'[g] BY <2>2 DEF Types
  <2>4. damage' \in 0 .. MaxDamage BY <2>1, <1>1
  <2>5. tmp' \in Contents' /\ restored' \in Contents' BY <2>1, <1>4 DEF Types
  <2> QED BY <2>1, <2>2, <2>3, <2>4, <2>5, <1>1, <1>2, <1>3 DEF Types
<1>12. CASE Boot
  <2>1. /\ UNCHANGED <<files, maybe, tmp, dst, savb, gen, slot, saved, done, durable, damage>>
        /\ restored' = fopen_and_check /\ pc' = "idle" /\ inSeq' = FALSE
    BY <1>12 DEF Boot, Idle, counts
  <2>2. restored' \in Contents' BY <2>1, <1>4, BootFinds
  <2>3. files' \in [Files -> Contents'] /\ maybe' \in [Files -> SUBSET Contents'] /\ tmp' \in Contents'
    BY <2>1, <1>4 DEF Types
  <2>4. pc' \in Steps BY <2>1 DEF Steps
  <2> QED BY <2>1, <2>2, <2>3, <2>4, <1>1, <1>3, <1>2 DEF Types
<1> QED BY <1>7, <1>8, <1>9, <1>10, <1>11, <1>12

-----------------------------------------------------------------------------
\* The cycle goes as the invariant says.
LEMMA CycleKept ==
    ASSUME Types, Cycle, Next
    PROVE  Cycle'
<1>1. /\ pc \in Steps /\ dst \in Files /\ slot \in NoSlot .. NumSeq - 1 /\ NumSeq \in Nat /\ tmp \in Contents
  BY BoundsAssumption DEF Types
<1>2. CASE Save BY <1>2, FileFacts DEF Save, ensure_savb, WriteTo, Cycle, WriteSteps
<1>3. CASE WriteFails BY <1>3 DEF WriteFails, Fail, GiveUp, Idle, Cycle, WriteSteps
<1>4. CASE OpenTmp BY <1>4 DEF OpenTmp, Cycle, WriteSteps
<1>5. ASSUME NEW how \in {"full", "lossy", "short"}, WriteTmp(how) PROVE Cycle'
  <2>1. tmp'.gen = tmp.gen BY <1>1, <1>5 DEF WriteTmp, Contents
  <2> QED BY <1>5, <2>1 DEF WriteTmp, Cycle, WriteSteps
<1>6. ASSUME NEW ok \in BOOLEAN, SyncTmp(ok) PROVE Cycle'
  <2>1. tmp'.gen = tmp.gen /\ tmp'.synced = ok BY <1>1, <1>6 DEF SyncTmp, Contents
  <2>2. (dst = Sav /\ ~ok) => gen \in unsynced' BY <1>6 DEF SyncTmp
  <2>3. /\ UNCHANGED <<dst, inSeq, slot, gen, files>> /\ pc = "sync" /\ pc' = "check" BY <1>6 DEF SyncTmp
  <2> QED BY <2>1, <2>2, <2>3 DEF Cycle, WriteSteps
<1>7. CASE CheckTmp BY <1>7 DEF CheckTmp, Whole, GiveUp, Idle, Cycle, WriteSteps, faults
<1>8. CASE Rename
  <2>1. files'[dst] = tmp /\ UNCHANGED <<dst, gen, slot, inSeq>> /\ pc = "rename" /\ pc' = "dirsync"
    BY <1>8 DEF Rename, RenameTo, Types
  <2> QED BY <2>1 DEF Cycle, WriteSteps
<1>9. CASE SyncDirs
  <2>1. pc = "dirsync" /\ UNCHANGED <<files, gen, tmp>> /\ \E ok \in BOOLEAN : Written(ok)
    BY <1>9 DEF SyncDirs, SyncDir
  <2>2. CASE dst = SavB BY <2>1, <2>2, FileFacts DEF Written, WriteTo, Cycle, WriteSteps
  <2>3. CASE dst = Sav BY <2>1, <2>3, FileFacts DEF Written, Idle, Cycle, WriteSteps
  <2>4. CASE dst \in Slots BY <2>1, <2>4, FileFacts DEF Written, Idle, Cycle, WriteSteps
  <2> QED BY <2>2, <2>3, <2>4, <1>1, FileFacts
<1>10. CASE Copy BY <1>10 DEF Copy, Cycle, WriteSteps
<1>11. CASE Publish BY <1>11 DEF Publish, Idle, Cycle, WriteSteps
<1>12. CASE CopyFails BY <1>12 DEF CopyFails, Idle, Cycle, WriteSteps
<1>13. CASE do_seq
  <2>1. oldest_seq_slot \in 0 .. NumSeq - 1 BY <1>1, <1>13, OldestSlot DEF do_seq
  <2>2. slot' # NoSlot BY <1>13, <2>1 DEF do_seq, NoSlot
  <2>3. pc' = "seqCopy" \/ (pc' = "open" /\ dst' \in {Sav, SavB})
    BY <1>13 DEF do_seq, ensure_savb, WriteTo
  <2> QED BY <2>2, <2>3, <1>13, FileFacts DEF do_seq, Cycle, WriteSteps
<1>14. CASE SeqCopy
  <2>1. slot \in 0 .. NumSeq - 1 BY <1>14, <1>1 DEF SeqCopy, Cycle, NoSlot
  <2>2. Slot(slot) \in Slots BY <2>1, FileFacts
  <2> QED BY <1>14, <2>2, FileFacts DEF SeqCopy, Cycle, WriteSteps
<1>15. CASE Crash \/ LosePower BY <1>15 DEF Crash, LosePower, Restarted, Cycle, WriteSteps
<1>16. CASE \E f \in Files : Damage(f) BY <1>16 DEF Damage, Cycle, WriteSteps
<1>17. CASE Boot BY <1>17 DEF Boot, Idle, Cycle, WriteSteps
<1> QED BY <1>2, <1>3, <1>4, <1>5, <1>6, <1>7, <1>8, <1>9, <1>10, <1>11, <1>12, <1>13, <1>14, <1>15,
           <1>16, <1>17 DEF Next, SaveStep, SyncDirs

-----------------------------------------------------------------------------
(* What the files hold.                                                     *)

\* The .sav is the last reported save, or a later one.
Reported == files[Sav].gen >= done

\* A boot has found the last reported save, until another takes its place; but
\* not, after a loss of power, in a .sav that was never synced.
Restores ==
    (pc # "boot" /\ ~(pc = "dirsync" /\ dst = Sav) /\ ~saved /\ done > 0
        /\ (losses = 0 \/ files[Sav].gen \notin unsynced)) => restored.gen >= done

\* What is missing before a marker, the write lost.
LostIn(c) == c.lost => c.gen \in lossy
Losses == /\ \A f \in Files : \A c \in maybe[f] : LostIn(c)
          /\ LostIn(tmp) /\ LostIn(restored)

\* No file is torn, and what is copied is not.
Untorn == NeverTorn /\ (pc = "publish" => tmp.whole)

\* Of the .sav and the .savB both are whole once a save has been reported, one
\* if a file has been damaged; the .sav is replaced while the .savB is whole,
\* and copied while it is whole itself.
OneWhole ==
    /\ done > 0 => files[Sav].whole \/ files[SavB].whole
    /\ (done > 0 /\ damage = 0) => files[Sav].whole /\ files[SavB].whole
    /\ (dst = Sav /\ pc \in WriteSteps \cup {"open", "dirsync"}) => files[SavB].whole
    /\ (dst = SavB /\ pc \in {"copy", "publish"}) => files[Sav].whole
    /\ (dst = SavB /\ pc = "publish") => tmp.whole
    /\ (pc # "boot" /\ ~saved /\ done > 0) => restored.whole

\* The steps that leave the files, and what was restored, alone.
Quiet == \/ Save \/ WriteFails \/ OpenTmp \/ WriteTmps \/ SyncTmps \/ CheckTmp
         \/ Copy \/ CopyFails \/ do_seq \/ SeqCopy \/ Crash

\* They leave alone what was reported too.
LEMMA QuietFacts ==
    ASSUME Quiet
    PROVE  /\ UNCHANGED <<files, maybe, restored, done, durable, damage, losses>>
           /\ pc # "boot" /\ (saved' = saved \/ pc' = "boot")
           /\ \A g \in unsynced : g \in unsynced'
           /\ pc = "dirsync" => pc' = "boot"
<1>1. CASE Save BY <1>1 DEF Save, counts, faults
<1>2. CASE WriteFails BY <1>2 DEF WriteFails, Fail, faults
<1>3. CASE OpenTmp BY <1>3 DEF OpenTmp, faults
<1>4. CASE WriteTmps BY <1>4 DEF WriteTmps, WriteTmp
<1>5. CASE SyncTmps BY <1>5 DEF SyncTmps, SyncTmp, counts
<1>6. CASE CheckTmp BY <1>6 DEF CheckTmp, counts, faults
<1>7. CASE Copy BY <1>7 DEF Copy, faults
<1>8. CASE CopyFails BY <1>8 DEF CopyFails, faults
<1>9. CASE do_seq BY <1>9 DEF do_seq, faults
<1>10. CASE SeqCopy BY <1>10 DEF SeqCopy, counts, faults
<1>11. CASE Crash BY <1>11 DEF Crash, Restarted, faults
<1> QED BY <1>1, <1>2, <1>3, <1>4, <1>5, <1>6, <1>7, <1>8, <1>9, <1>10, <1>11 DEF Quiet

\* A step is a quiet one or changes a file, what is reported or restored.
LEMMA StepKinds ==
    ASSUME Next
    PROVE  Quiet \/ Rename \/ SyncDirs \/ Publish \/ LosePower \/ (\E f \in Files : Damage(f)) \/ Boot
BY DEF Next, SaveStep, Quiet, WriteTmps, SyncTmps, SyncDirs

\* Damage and losses of power are counted.
LEMMA CountsGrow ==
    ASSUME Types, losses \in Nat, Next
    PROVE  /\ losses' \in Nat /\ (losses' = 0 => losses = 0 /\ ~LosePower)
           /\ damage' = damage \/ damage' = damage + 1
           /\ damage' = 0 => damage = 0 /\ \A f \in Files : ~Damage(f)
<1>1. damage \in Nat BY BoundsAssumption DEF Types
<1>2. LosePower => losses' = losses + 1 /\ damage' = damage BY DEF LosePower, Restarted
<1>3. \A f \in Files : Damage(f) => losses' = losses /\ damage' = damage + 1 BY DEF Damage
<1>4. Quiet => UNCHANGED <<losses, damage>> BY QuietFacts
<1>5. Rename \/ SyncDirs \/ Publish \/ Boot => UNCHANGED <<losses, damage>>
  BY DEF Rename, SyncDirs, SyncDir, Overlooked, Publish, Boot, counts
<1> QED BY <1>1, <1>2, <1>3, <1>4, <1>5, StepKinds

\* The .sav is durable: it is synced before the rename, or known not to be,
\* and the rename is synced before the save counts as durable.
LEMMA SavKept ==
    ASSUME Types, Cycle, \A f \in Files : ~Damage(f), SavDurable, Next
    PROVE  SavDurable'
<1> DEFINE Kept(c) == c # None /\ c.gen \notin unsynced => Whole(c) /\ c.synced
<1>1. /\ gen \in Nat /\ done \in 0 .. gen /\ durable \in 0 .. done /\ dst \in Files /\ tmp \in Contents
      /\ files[Sav] \in maybe[Sav]
  BY BoundsAssumption, FileFacts DEF Types
<1>0. \A c \in maybe[Sav] : c.gen >= durable /\ Kept(c) BY DEF SavDurable
<1>2. CASE Quiet BY <1>2, QuietFacts DEF SavDurable
<1>3. CASE Rename
  <2>1. RenameTo(dst) /\ clock' = clock /\ UNCHANGED <<durable, unsynced>> /\ pc = "rename"
    BY <1>3 DEF Rename, counts, faults
  <2>2. maybe'[Sav] = IF dst = Sav THEN maybe[Sav] \cup {tmp} ELSE maybe[Sav]
    BY <1>1, <2>1, RenameFiles, FileFacts
  <2>3. tmp.gen >= durable /\ tmp.whole /\ tmp.gen = gen BY <1>1, <2>1 DEF Cycle, WriteSteps
  <2>4. dst = Sav => tmp.synced \/ gen \in unsynced BY <2>1 DEF Cycle
  <2> QED BY <2>1, <2>2, <2>3, <2>4 DEF SavDurable, Whole
<1>4. CASE SyncDirs
  <2>1. PICK ok \in BOOLEAN : SyncDir(ok) BY <1>4 DEF SyncDirs
  <2>2. /\ pc = "dirsync" /\ unsynced' = unsynced /\ Written(ok)
        /\ maybe' = IF ok THEN [f \in Files |-> {files[f]}] ELSE maybe
    BY <2>1 DEF SyncDir, faults
  <2>3. durable' = durable \/ (dst = Sav /\ ok /\ durable' = gen) BY <2>2 DEF Written
  <2>4. dst = Sav => files[Sav].gen = gen BY <2>2 DEF Cycle
  <2>5. CASE ok
    <3>1. maybe'[Sav] = {files[Sav]} BY <2>2, <2>5, FileFacts
    <3>2. files[Sav].gen >= durable' BY <1>0, <1>1, <2>3, <2>4
    <3> QED BY <1>0, <1>1, <2>2, <3>1, <3>2 DEF SavDurable
  <2>6. CASE ~ok
    <3>1. maybe' = maybe /\ durable' = durable BY <2>2, <2>3, <2>6
    <3> QED BY <2>2, <3>1 DEF SavDurable
  <2> QED BY <2>5, <2>6
<1>5. CASE Publish
  <2>1. RenameTo(dst) /\ clock' = clock /\ UNCHANGED <<durable, unsynced>> /\ pc = "publish"
    BY <1>5 DEF Publish, counts, faults
  <2>2. dst # Sav BY <2>1 DEF Cycle
  <2>3. maybe'[Sav] = maybe[Sav] BY <1>1, <2>1, <2>2, RenameFiles, FileFacts
  <2> QED BY <2>1, <2>3 DEF SavDurable
<1>6. CASE LosePower
  <2>1. maybe'[Sav] = {files'[Sav]} /\ \E c \in maybe[Sav] : files'[Sav] \in Survives(c)
    BY <1>6, PowerFiles, FileFacts
  <2>2. PICK c \in maybe[Sav] : files'[Sav] \in Survives(c) BY <2>1
  <2>3. c \in Contents /\ c.gen >= durable /\ Kept(c) BY <1>0, FileFacts DEF Types
  <2>4. UNCHANGED <<durable, unsynced>> BY <1>6 DEF LosePower, Restarted, faults
  <2>5. CASE c.synced
    <3>1. files'[Sav] = c BY <2>2, <2>5 DEF Survives
    <3> QED BY <2>1, <2>3, <2>4, <3>1 DEF SavDurable
  <2>6. CASE ~c.synced
    <3>1. c.gen \in unsynced BY <2>3, <2>6 DEF None
    <3>2. PICK w \in {c.whole, FALSE} : files'[Sav] = [c EXCEPT !.whole = w, !.synced = TRUE]
      BY <2>2, <2>6 DEF Survives
    <3>3. files'[Sav].gen = c.gen BY <2>3, <3>2 DEF Contents
    <3> QED BY <2>1, <2>3, <2>4, <3>1, <3>3 DEF SavDurable
  <2> QED BY <2>5, <2>6
<1>7. CASE Boot BY <1>7 DEF Boot, SavDurable, faults
<1> QED BY <1>2, <1>3, <1>4, <1>5, <1>6, <1>7, StepKinds

\* What each step does to what is reported, and to the .sav.
LEMMA ReportedKept ==
    ASSUME Types, Cycle, \A f \in Files : ~Damage(f), SavDurable, Reported, Next
    PROVE  Reported'
<1>1. gen \in Nat /\ done \in 0 .. gen /\ dst \in Files BY BoundsAssumption DEF Types
<1>2. CASE Quiet BY <1>2, QuietFacts DEF Reported
<1>3. CASE Rename
  <2>1. RenameTo(dst) /\ clock' = clock /\ done' = done /\ pc = "rename" BY <1>3 DEF Rename, counts
  <2>2. files'[Sav] = IF dst = Sav THEN tmp ELSE files[Sav] BY <1>1, <2>1, RenameFiles, FileFacts
  <2>3. tmp.gen = gen BY <2>1 DEF Cycle, WriteSteps
  <2> QED BY <1>1, <2>1, <2>2, <2>3 DEF Reported
<1>4. CASE SyncDirs
  <2>1. files' = files /\ pc = "dirsync" /\ (done' = done \/ (dst = Sav /\ done' = gen))
    BY <1>4 DEF SyncDirs, SyncDir, Written
  <2>2. dst = Sav => files[Sav].gen = gen BY <2>1 DEF Cycle
  <2> QED BY <1>1, <2>1, <2>2 DEF Reported
<1>5. CASE Publish
  <2>1. RenameTo(dst) /\ clock' = clock /\ done' = done /\ pc = "publish" BY <1>5 DEF Publish, counts
  <2>2. dst # Sav BY <2>1 DEF Cycle
  <2>3. files'[Sav] = files[Sav] BY <1>1, <2>1, <2>2, RenameFiles, FileFacts
  <2> QED BY <2>1, <2>3 DEF Reported
<1>6. CASE LosePower
  <2>1. SavDurable' BY <1>6, SavKept
  <2>2. files'[Sav] \in maybe'[Sav] BY <1>6, PowerFiles, FileFacts
  <2>3. done' = durable /\ durable' = durable BY <1>6 DEF LosePower, Restarted
  <2> QED BY <2>1, <2>2, <2>3 DEF SavDurable, Reported
<1>7. CASE Boot BY <1>7 DEF Boot, Reported
<1> QED BY <1>2, <1>3, <1>4, <1>5, <1>6, <1>7, StepKinds

\* A boot restores the .sav, which is no older than the last reported save.
LEMMA RestoresKept ==
    ASSUME Types, Cycle, \A f \in Files : ~Damage(f), SavDurable, Reported, Restores, losses = 0 => NeverTorn, Next
    PROVE  Restores'
<1>1. done \in Nat /\ files[Sav] \in maybe[Sav] /\ dst \in Files BY BoundsAssumption, FileFacts DEF Types
<1>2. CASE Quiet
  <2>1. /\ UNCHANGED <<files, restored, done, losses>> /\ pc # "boot" /\ (saved' = saved \/ pc' = "boot")
        /\ (\A g \in unsynced : g \in unsynced') /\ (pc = "dirsync" => pc' = "boot")
    BY <1>2, QuietFacts
  <2> QED BY <2>1 DEF Restores
<1>3. CASE Rename
  <2>1. /\ RenameTo(dst) /\ clock' = clock /\ pc = "rename" /\ pc' = "dirsync"
        /\ UNCHANGED <<dst, saved, restored, done, losses, unsynced>>
    BY <1>3 DEF Rename, counts, faults
  <2>2. dst # Sav => files'[Sav] = files[Sav] BY <1>1, <2>1, RenameFiles, FileFacts
  <2> QED BY <2>1, <2>2 DEF Restores
<1>4. CASE SyncDirs
  <2>1. /\ pc = "dirsync" /\ UNCHANGED <<restored, files, losses, unsynced>>
        /\ saved' \/ (dst # Sav /\ saved' = saved /\ done' = done)
    BY <1>4, FileFacts DEF SyncDirs, SyncDir, Written, faults
  <2> QED BY <2>1 DEF Restores
<1>5. CASE Publish
  <2>1. /\ RenameTo(dst) /\ clock' = clock /\ pc = "publish"
        /\ UNCHANGED <<saved, restored, done, losses, unsynced>>
    BY <1>5 DEF Publish, counts, faults
  <2>2. dst # Sav BY <2>1 DEF Cycle
  <2>3. files'[Sav] = files[Sav] BY <1>1, <2>1, <2>2, RenameFiles, FileFacts
  <2> QED BY <2>1, <2>3 DEF Restores
<1>6. CASE LosePower BY <1>6 DEF LosePower, Restarted, Restores
<1>7. CASE Boot
  <2>1. restored' = fopen_and_check /\ UNCHANGED <<done, files, unsynced, losses>> BY <1>7 DEF Boot, faults, counts
  <2>2. files[Sav].gen >= done BY DEF Reported
  <2>3. done > 0 => files[Sav] # None BY <1>1, <2>2 DEF None
  <2>4. (done > 0 /\ (losses = 0 \/ files[Sav].gen \notin unsynced)) => Whole(files[Sav])
    BY <1>1, <2>3, FileFacts DEF SavDurable, NeverTorn
  <2>5. (done > 0 /\ (losses = 0 \/ files[Sav].gen \notin unsynced)) => restored' = files[Sav]
    BY <2>1, <2>4, BootFinds
  <2> QED BY <2>1, <2>2, <2>5 DEF Restores
<1> QED BY <1>2, <1>3, <1>4, <1>5, <1>6, <1>7, StepKinds

\* Values go missing in `write_as_stdio` and nowhere else.
LEMMA LossesKept ==
    ASSUME Types, Cycle, Losses, Next
    PROVE  Losses'
<1>1. /\ tmp \in Contents /\ dst \in Files /\ files[Sav] \in Contents
      /\ \A f \in Files : files[f] \in maybe[f]
      /\ \A f \in Files : \A c \in maybe[f] : c \in Contents
  BY FileFacts DEF Types
<1>2. LostIn(None) /\ \A f \in Files : LostIn(files[f]) BY <1>1 DEF LostIn, None, Losses
<1>3. ASSUME NEW how \in {"full", "lossy", "short"}, WriteTmp(how) PROVE Losses'
  <2>1. /\ UNCHANGED <<maybe, restored>> /\ pc = "write"
        /\ tmp' = [tmp EXCEPT !.whole = how # "short", !.lost = how = "lossy"]
        /\ lossy' = IF how = "lossy" THEN lossy \cup {gen} ELSE lossy
    BY <1>3 DEF WriteTmp
  <2>2. tmp'.gen = gen /\ tmp'.lost = (how = "lossy") BY <1>1, <2>1 DEF Contents, Cycle, WriteSteps
  <2>3. \A g \in lossy : g \in lossy' BY <2>1
  <2>5. how = "lossy" => gen \in lossy' BY <2>1
  <2>4. tmp'.lost => tmp'.gen \in lossy' BY <2>2, <2>5, Zenon
  <2> QED BY <2>1, <2>3, <2>4 DEF Losses, LostIn
<1>4. ASSUME NEW ok \in BOOLEAN, SyncTmp(ok) PROVE Losses'
  <2>1. UNCHANGED <<maybe, restored, lossy>> /\ tmp' = [tmp EXCEPT !.synced = ok] BY <1>4 DEF SyncTmp
  <2>2. tmp'.gen = tmp.gen /\ tmp'.lost = tmp.lost BY <1>1, <2>1 DEF Contents
  <2> QED BY <2>1, <2>2 DEF Losses, LostIn
<1>5. CASE Save \/ do_seq \/ SeqCopy
  <2>1. UNCHANGED <<maybe, restored, lossy, tmp>> BY <1>5 DEF Save, do_seq, SeqCopy, faults
  <2> QED BY <2>1 DEF Losses, LostIn
<1>6. CASE WriteFails \/ CheckTmp \/ CopyFails \/ Crash
  <2>1. UNCHANGED <<maybe, restored, lossy>> /\ tmp' \in {tmp, None}
    BY <1>6 DEF WriteFails, Fail, CheckTmp, CopyFails, Crash, Restarted, faults
  <2> QED BY <1>2, <2>1 DEF Losses, LostIn
<1>7. CASE OpenTmp
  <2>1. UNCHANGED <<maybe, restored, lossy>> /\ ~tmp'.lost BY <1>7 DEF OpenTmp, faults
  <2> QED BY <2>1 DEF Losses, LostIn
<1>8. CASE Copy
  <2>1. UNCHANGED <<maybe, restored, lossy>> /\ tmp' = [files[Sav] EXCEPT !.synced = FALSE, !.at = clock + 1]
    BY <1>8 DEF Copy, faults
  <2>2. tmp'.gen = files[Sav].gen /\ tmp'.lost = files[Sav].lost BY <1>1, <2>1 DEF Contents
  <2>3. LostIn(files[Sav]) BY <1>2, FileFacts
  <2> QED BY <2>1, <2>2, <2>3 DEF Losses, LostIn
<1>9. CASE Rename \/ Publish
  <2>1. RenameTo(dst) /\ clock' = clock /\ UNCHANGED <<restored, lossy>> BY <1>9 DEF Rename, Publish, faults, counts
  <2>2. /\ \A g \in Files : maybe'[g] = IF g = dst THEN maybe[dst] \cup {tmp} ELSE maybe[g]
        /\ tmp' = None
    BY <1>1, <2>1, RenameFiles
  <2> QED BY <1>2, <2>1, <2>2 DEF Losses, LostIn
<1>10. CASE SyncDirs
  <2>1. UNCHANGED <<restored, lossy, tmp>> /\ maybe' \in {maybe, [f \in Files |-> {files[f]}]}
    BY <1>10 DEF SyncDirs, SyncDir, faults
  <2> QED BY <1>2, <2>1 DEF Losses, LostIn
<1>11. CASE LosePower
  <2>1. UNCHANGED <<restored, lossy>> /\ tmp' = None BY <1>11 DEF LosePower, Restarted, faults
  <2>2. /\ \A f \in Files : maybe'[f] = {files'[f]}
        /\ \A f \in Files : \E c \in maybe[f] : files'[f] \in Survives(c)
    BY <1>11, PowerFiles
  <2>3. \A c \in Contents : \A d \in Survives(c) : d.gen = c.gen /\ d.lost = c.lost
    BY DEF Survives, Contents
  <2>4. \A f \in Files : LostIn(files'[f]) BY <1>1, <2>2, <2>3 DEF Losses, LostIn
  <2> QED BY <1>2, <2>1, <2>2, <2>4 DEF Losses, LostIn
<1>12. ASSUME NEW f \in Files, Damage(f) PROVE Losses'
  <2>1. UNCHANGED <<restored, lossy, tmp>> BY <1>12 DEF Damage, faults
  <2>2. PICK c \in {None, [files[f] EXCEPT !.whole = FALSE]} : maybe' = [maybe EXCEPT ![f] = {c}] BY <1>12 DEF Damage
  <2>3. files[f] \in Contents /\ LostIn(files[f]) BY <1>1, <1>2
  <2>4. LostIn(c)
    <3>1. CASE c = None BY <3>1, <1>2
    <3>2. CASE c = [files[f] EXCEPT !.whole = FALSE]
      <4>1. c.gen = files[f].gen /\ c.lost = files[f].lost BY <2>3, <3>2 DEF Contents
      <4> QED BY <2>3, <4>1 DEF LostIn
    <3> QED BY <2>2, <3>1, <3>2
  <2>5. \A g \in Files : maybe'[g] = IF g = f THEN {c} ELSE maybe[g] BY <2>2 DEF Types
  <2> QED BY <2>1, <2>4, <2>5 DEF Losses, LostIn
<1>13. CASE Boot
  <2>1. UNCHANGED <<maybe, lossy, tmp>> /\ restored' = fopen_and_check BY <1>13 DEF Boot, faults
  <2>2. fopen_and_check = None \/ \E f \in Files : fopen_and_check = files[f] BY BootFinds
  <2> QED BY <1>2, <2>1, <2>2 DEF Losses, LostIn
<1> QED BY <1>3, <1>4, <1>5, <1>6, <1>7, <1>8, <1>9, <1>10, <1>11, <1>12, <1>13 DEF Next, SaveStep, SyncDirs

\* The process tears no file, wherever it stops.
LEMMA UntornKept ==
    ASSUME Types, Cycle, \A f \in Files : ~Damage(f), ~LosePower, Untorn, Next
    PROVE  Untorn'
<1>1. dst \in Files /\ tmp \in Contents /\ files[Sav] \in Contents BY FileFacts DEF Types
<1>2. CASE Copy
  <2>1. files[Sav].whole BY <1>2, FileFacts DEF Copy, Untorn, NeverTorn, Whole
  <2>2. tmp'.whole = files[Sav].whole BY <1>1, <1>2 DEF Copy, Contents
  <2>3. files' = files BY <1>2 DEF Copy
  <2> QED BY <2>1, <2>2, <2>3 DEF Untorn, NeverTorn, Whole
<1>3. CASE Quiet /\ ~Copy
  <2>1. pc' # "publish"
    BY <1>3 DEF Quiet, Save, ensure_savb, WriteTo, WriteFails, Fail, GiveUp, Idle, OpenTmp, WriteTmps, WriteTmp,
                SyncTmps, SyncTmp,
                CheckTmp, CopyFails, do_seq, SeqCopy, Crash, Restarted
  <2>2. files' = files BY <1>3, QuietFacts
  <2> QED BY <2>1, <2>2 DEF Untorn, NeverTorn, Whole
<1>4. CASE Rename
  <2>1. RenameTo(dst) /\ clock' = clock /\ pc = "rename" /\ pc' = "dirsync" BY <1>4 DEF Rename, counts
  <2>2. \A g \in Files : files'[g] = IF g = dst THEN tmp ELSE files[g] BY <1>1, <2>1, RenameFiles
  <2>3. tmp.whole BY <2>1 DEF Cycle
  <2> QED BY <2>1, <2>2, <2>3 DEF Untorn, NeverTorn, Whole
<1>5. CASE SyncDirs
  <2>1. files' = files /\ pc' # "publish" BY <1>5 DEF SyncDirs, SyncDir, Overlooked, Written, WriteTo, Idle
  <2> QED BY <2>1 DEF Untorn, NeverTorn, Whole
<1>6. CASE Publish
  <2>1. RenameTo(dst) /\ clock' = clock /\ pc = "publish" /\ pc' # "publish" BY <1>6 DEF Publish, Idle, counts
  <2>2. \A g \in Files : files'[g] = IF g = dst THEN tmp ELSE files[g] BY <1>1, <2>1, RenameFiles
  <2>3. tmp.whole BY <2>1 DEF Untorn
  <2> QED BY <2>1, <2>2, <2>3 DEF Untorn, NeverTorn, Whole
<1>7. CASE Boot
  <2>1. files' = files /\ pc' # "publish" BY <1>7 DEF Boot, Idle
  <2> QED BY <2>1 DEF Untorn, NeverTorn, Whole
<1> QED BY <1>2, <1>3, <1>4, <1>5, <1>6, <1>7, StepKinds

\* One of the .sav and the .savB stays whole, whichever is damaged.
LEMMA OneWholeKept ==
    ASSUME Types, Cycle, damage' <= 1, ~LosePower, OneWhole, Next
    PROVE  OneWhole'
<1>1. /\ dst \in Files /\ tmp \in Contents /\ files[Sav] \in Contents /\ done \in Nat /\ damage \in Nat
  BY BoundsAssumption, FileFacts DEF Types
<1>2. CASE Copy
  <2>1. tmp'.whole = files[Sav].whole BY <1>1, <1>2 DEF Copy, Contents
  <2>2. UNCHANGED <<files, dst, done, damage, saved, restored>> /\ pc = "copy" /\ pc' = "publish" BY <1>2 DEF Copy
  <2> QED BY <2>1, <2>2 DEF OneWhole, WriteSteps
<1>3. CASE Quiet /\ ~Copy
  <2>1. UNCHANGED <<files, restored, done, damage>> /\ pc # "boot" /\ (saved' = saved \/ pc' = "boot")
    BY <1>3, QuietFacts
  <2>2. pc' \notin {"publish", "dirsync"} /\ (dst' = SavB => pc' # "copy")
    BY <1>3, <1>1, FileFacts
         DEF Types, Cycle, Quiet, Save, ensure_savb, WriteTo, WriteFails, Fail, GiveUp, Idle, OpenTmp,
             WriteTmps, WriteTmp, SyncTmps, SyncTmp, CheckTmp, CopyFails, do_seq, SeqCopy, Crash, Restarted, NoSlot
  <2>3. (dst' = Sav /\ pc' \in WriteSteps \cup {"open"}) => files[SavB].whole
    <3>1. CASE Save \/ do_seq BY <3>1, FileFacts DEF Save, do_seq, ensure_savb, WriteTo, Whole, WriteSteps
    <3>2. CASE WriteFails \/ Crash BY <3>2 DEF WriteFails, Fail, GiveUp, Idle, Crash, Restarted, WriteSteps
    <3>3. CASE OpenTmp \/ SyncTmps \/ WriteTmps
      BY <3>3 DEF OpenTmp, SyncTmps, SyncTmp, WriteTmps, WriteTmp, OneWhole, WriteSteps
    <3>4. CASE CheckTmp BY <3>4 DEF CheckTmp, GiveUp, Idle, OneWhole, WriteSteps
    <3>5. CASE CopyFails BY <3>5, FileFacts DEF CopyFails, Idle, WriteSteps
    <3>6. CASE SeqCopy BY <3>6 DEF SeqCopy, WriteSteps
    <3> QED BY <1>3, <3>1, <3>2, <3>3, <3>4, <3>5, <3>6 DEF Quiet
  <2> QED BY <2>1, <2>2, <2>3 DEF OneWhole
<1>4. CASE Rename
  <2>1. /\ RenameTo(dst) /\ clock' = clock /\ pc = "rename" /\ pc' = "dirsync"
        /\ UNCHANGED <<dst, done, damage, saved, restored>>
    BY <1>4 DEF Rename, counts
  <2>2. \A g \in Files : files'[g] = IF g = dst THEN tmp ELSE files[g] BY <1>1, <2>1, RenameFiles
  <2>3. tmp.whole BY <2>1 DEF Cycle
  <2>4. files[Sav].whole => files'[Sav].whole BY <2>2, <2>3, FileFacts
  <2>5. files[SavB].whole => files'[SavB].whole BY <2>2, <2>3, FileFacts
  <2> QED BY <2>1, <2>4, <2>5 DEF OneWhole, WriteSteps
<1>5. CASE SyncDirs
  <2>1. /\ pc = "dirsync" /\ files' = files /\ UNCHANGED <<damage, restored>>
        /\ files[dst].whole /\ \E ok \in BOOLEAN : Written(ok)
    BY <1>5 DEF SyncDirs, SyncDir, Cycle
  <2>2. CASE dst = SavB BY <2>1, <2>2, FileFacts DEF Written, WriteTo, OneWhole, WriteSteps
  <2>3. CASE dst = Sav
    <3>1. files[Sav].whole /\ files[SavB].whole BY <2>1, <2>3 DEF OneWhole
    <3>2. saved' BY <2>1, <2>3, FileFacts DEF Written
    <3>3. pc' # "publish" BY <2>1, <2>3, FileFacts DEF Written, Idle
    <3> QED BY <2>1, <3>1, <3>2, <3>3 DEF OneWhole
  <2>4. CASE dst \in Slots BY <2>1, <2>4, FileFacts DEF Written, Idle, OneWhole, WriteSteps
  <2> QED BY <2>2, <2>3, <2>4, <1>1, FileFacts
<1>6. CASE Publish
  <2>1. /\ RenameTo(dst) /\ clock' = clock /\ pc = "publish" /\ pc' \in {"idle", "seqCopy"}
        /\ UNCHANGED <<dst, done, damage, saved, restored>>
    BY <1>6 DEF Publish, Idle, counts
  <2>2. \A g \in Files : files'[g] = IF g = dst THEN tmp ELSE files[g] BY <1>1, <2>1, RenameFiles
  <2>3. dst # Sav BY <2>1 DEF Cycle
  <2>4. files'[Sav] = files[Sav] BY <2>2, <2>3, FileFacts
  <2>5. files[SavB].whole => files'[SavB].whole BY <2>1, <2>2, FileFacts DEF OneWhole
  <2> QED BY <2>1, <2>4, <2>5 DEF OneWhole, WriteSteps
<1>7. ASSUME NEW f \in Files, Damage(f) PROVE OneWhole'
  <2>1. UNCHANGED <<dst, done, pc, saved, restored>> /\ pc = "idle" /\ damage' = damage + 1
    BY <1>7 DEF Damage
  <2>2. damage = 0 /\ damage' # 0 BY <2>1, <1>1
  <2>3. \A g \in Files : g # f => files'[g] = files[g] BY <1>7, DamageFiles
  <2>4. done > 0 => files'[Sav].whole \/ files'[SavB].whole BY <2>2, <2>3, FileFacts DEF OneWhole
  <2> QED BY <2>1, <2>2, <2>4 DEF OneWhole, WriteSteps
<1>8. CASE Boot
  <2>1. UNCHANGED <<files, dst, done, damage>> /\ pc' = "idle" /\ restored' = fopen_and_check
    BY <1>8 DEF Boot, Idle, counts
  <2>2. done > 0 => restored'.whole BY <2>1, BootFinds DEF OneWhole, Whole
  <2> QED BY <2>1, <2>2 DEF OneWhole, WriteSteps
<1> QED BY <1>2, <1>3, <1>4, <1>5, <1>6, <1>7, <1>8, StepKinds

-----------------------------------------------------------------------------
(* The ages of the files.                                                   *)

\* Another sequence file is missing, or newer than this one.
NotNewest(i) ==
    \/ files[Slot(i)] = None
    \/ \E g \in Slots \ {Slot(i)} : files[g] = None \/ files[g].at > files[Slot(i)].at

\* No two names hold contents of one age; the temporary file is newer than any
\* of them; the slot in memory is not the newest, but while its own copy is
\* being made durable.
Ages ==
    /\ \A f, g \in Files : f # g => \A c \in maybe[f], d \in maybe[g] : c.at = d.at => c.at = 0
    /\ \A f \in Files : \A c \in maybe[f] : c = None \/ c.at > 0
    /\ pc \in WriteSteps \cup {"publish"} => tmp.at > 0 /\ \A f \in Files : \A c \in maybe[f] : c.at < tmp.at
    /\ pc = "dirsync" => \A g \in Files : g # dst => files[g].at < files[dst].at
    /\ (NumSeq # 1 /\ slot # NoSlot /\ ~(pc = "dirsync" /\ dst \in Slots)) => NotNewest(slot)

\* The ages of what each name may hold.
LEMMA AgeFacts ==
    ASSUME Types
    PROVE  /\ \A f \in Files : \A c \in maybe[f] : c \in Contents /\ c.at \in Nat /\ c.at <= clock
           /\ \A f \in Files : files[f] \in maybe[f] /\ files[f].at \in Nat
           /\ clock \in Nat /\ tmp.at \in Nat
<1>1. \A c \in Contents : c.at \in 0 .. clock BY DEF Contents
<1>2. clock \in Nat BY DEF Types
<1>3. \A c \in Contents : c.at \in Nat /\ c.at <= clock BY <1>1, <1>2
<1> QED BY <1>2, <1>3 DEF Types

\* The slot a restart finds is not the newest.
LEMMA OldestNotNewest ==
    ASSUME Types, Ages, NumSeq > 1
    PROVE  NotNewest(oldest_seq_slot)
<1> DEFINE i == oldest_seq_slot
<1>1. NumSeq \in Nat BY BoundsAssumption
<1>2. /\ i \in 0 .. NumSeq - 1
      /\ files[Slot(i)] = None \/ \A j \in 0 .. NumSeq - 1 : files[Slot(i)].at <= files[Slot(j)].at
  BY <1>1, OldestSlot
<1> HIDE DEF i
<1>3. CASE files[Slot(i)] = None BY <1>3 DEF NotNewest, i
<1>4. CASE files[Slot(i)] # None
  <2> DEFINE j == IF i = 0 THEN 1 ELSE 0
  <2>1. j \in 0 .. NumSeq - 1 /\ j # i BY <1>1, <1>2
  <2> HIDE DEF j
  <2>2. Slot(j) \in Slots /\ Slot(i) \in Slots /\ Slot(j) # Slot(i) BY <2>1, <1>2, FileFacts
  <2>3. Slot(j) \in Files /\ Slot(i) \in Files BY <2>2, FileFacts
  <2>4. files[Slot(i)] \in maybe[Slot(i)] /\ files[Slot(j)] \in maybe[Slot(j)] BY <2>3, AgeFacts
  <2>5. files[Slot(i)].at \in Nat /\ files[Slot(j)].at \in Nat BY <2>3, AgeFacts
  <2>6. files[Slot(i)].at > 0 BY <1>4, <2>3, <2>4 DEF Ages
  <2>7. files[Slot(i)].at # files[Slot(j)].at BY <2>2, <2>3, <2>4, <2>5, <2>6 DEF Ages
  <2>8. files[Slot(i)].at <= files[Slot(j)].at BY <1>2, <1>4, <2>1
  <2>9. files[Slot(j)].at > files[Slot(i)].at BY <2>5, <2>7, <2>8
  <2> QED BY <2>2, <2>9 DEF NotNewest, i
<1> QED BY <1>3, <1>4

\* After a copy the next slot is not the newest.
LEMMA NextNotNewest ==
    ASSUME NumSeq # 1, slot \in 0 .. NumSeq - 1, NextSlot,
           \A g \in Slots \ {Slot(slot)} : files'[Slot(slot)].at > files'[g].at
    PROVE  NotNewest(slot)'
<1>1. NumSeq \in Nat BY BoundsAssumption
<1>2. slot' \in 0 .. NumSeq - 1 /\ slot' # slot BY <1>1 DEF NextSlot
<1>3. Slot(slot) \in Slots /\ Slot(slot') \in Slots /\ Slot(slot) # Slot(slot') BY <1>2, FileFacts
<1>4. files'[Slot(slot)].at > files'[Slot(slot')].at BY <1>3
<1>5. Slot(slot)' = Slot(slot') BY DEF Slot
<1> QED BY <1>3, <1>4, <1>5 DEF NotNewest, Slot, Slots

\* The steps that leave the files alone keep their ages.
LEMMA QuietAges ==
    ASSUME Types, Types', Cycle, Ages, Quiet
    PROVE  Ages'
<1>1. UNCHANGED <<files, maybe>> BY QuietFacts
<1>2. /\ tmp \in Contents /\ clock \in Nat /\ NumSeq \in Nat /\ files[Sav] \in Contents
      /\ slot \in NoSlot .. NumSeq - 1
  BY BoundsAssumption, FileFacts DEF Types
<1>3. pc' # "dirsync"
  BY DEF Quiet, Save, ensure_savb, WriteTo, WriteFails, Fail, GiveUp, Idle, OpenTmp, WriteTmps, WriteTmp,
                SyncTmps, SyncTmp,
         CheckTmp, Copy, CopyFails, do_seq, SeqCopy, Crash, Restarted
<1>4. pc' \in WriteSteps \cup {"publish"} => tmp'.at > 0 /\ \A f \in Files : \A c \in maybe[f] : c.at < tmp'.at
  <2>1. CASE OpenTmp \/ Copy
    <3>1. OpenTmp => tmp'.at = clock + 1 BY DEF OpenTmp
    <3>2. ASSUME Copy PROVE tmp'.at = clock + 1
      <4>1. PICK c \in Contents : c = files[Sav] BY <1>2
      <4>2. tmp' = [c EXCEPT !.synced = FALSE, !.at = clock + 1] BY <3>2, <4>1 DEF Copy
      <4>3. tmp' = [gen |-> c.gen, whole |-> c.whole, lost |-> c.lost, synced |-> FALSE, at |-> clock + 1]
        BY <4>2 DEF Contents
      <4> QED BY <4>3
    <3>3. tmp'.at = clock + 1 BY <2>1, <3>1, <3>2
    <3> QED BY <3>3, <1>2, AgeFacts
  <2>2. CASE SyncTmps \/ WriteTmps
    <3>1. tmp'.at = tmp.at BY <2>2, <1>2 DEF SyncTmps, SyncTmp, WriteTmps, WriteTmp, Contents
    <3>2. pc \in WriteSteps BY <2>2 DEF SyncTmps, SyncTmp, WriteTmps, WriteTmp, WriteSteps
    <3> QED BY <3>1, <3>2 DEF Ages
  <2>3. CASE CheckTmp BY <2>3 DEF CheckTmp, GiveUp, Idle, WriteSteps, Ages
  <2>4. CASE Save \/ WriteFails \/ CopyFails \/ do_seq \/ SeqCopy \/ Crash
    BY <2>4 DEF Save, ensure_savb, WriteTo, WriteFails, Fail, GiveUp, Idle, CopyFails, do_seq, SeqCopy, Crash,
                Restarted, WriteSteps
  <2> QED BY <2>1, <2>2, <2>3, <2>4 DEF Quiet
<1>5. (NumSeq # 1 /\ slot' # NoSlot) => NotNewest(slot)'
  <2> SUFFICES ASSUME NumSeq # 1, slot' # NoSlot PROVE NotNewest(slot)' OBVIOUS
  <2>1. CASE slot' = slot
    <3>1. pc # "dirsync"
      BY <2>1, <1>1 DEF Quiet, Save, WriteFails, Fail, OpenTmp, WriteTmps, WriteTmp,
                SyncTmps, SyncTmp, CheckTmp, Copy, CopyFails,
                        do_seq, SeqCopy, Crash, Restarted
    <3>2. NotNewest(slot) BY <2>1, <3>1 DEF Ages
    <3> QED BY <2>1, <3>2, <1>1 DEF NotNewest
  <2>2. CASE slot' # slot
    <3>1. slot' = oldest_seq_slot /\ NumSeq > 0
      BY <2>2, <1>2 DEF Quiet, Save, WriteFails, Fail, OpenTmp, WriteTmps, WriteTmp,
                SyncTmps, SyncTmp, CheckTmp, Copy, CopyFails,
                  do_seq, SeqCopy, Crash, Restarted
    <3>2. NotNewest(oldest_seq_slot) BY <1>2, <3>1, OldestNotNewest
    <3> QED BY <3>1, <3>2, <1>1 DEF NotNewest, Slot
  <2> QED BY <2>1, <2>2
<1> QED BY <1>1, <1>3, <1>4, <1>5 DEF Ages

\* A rename puts the newest contents under its name.
LEMMA RenameAges ==
    ASSUME Types, Cycle, Ages, Rename \/ Publish
    PROVE  Ages'
<1>1. /\ RenameTo(dst) /\ clock' = clock /\ dst' = dst
      /\ pc \in {"rename", "publish"} /\ pc' \in {"dirsync", "idle", "seqCopy"}
  BY DEF Rename, Publish, Idle, counts
<1>2. dst \in Files BY DEF Types
<1>3. /\ \A g \in Files : files'[g] = IF g = dst THEN tmp ELSE files[g]
      /\ \A g \in Files : maybe'[g] = IF g = dst THEN maybe[dst] \cup {tmp} ELSE maybe[g]
  BY <1>1, <1>2, RenameFiles
<1>4. tmp.at > 0 /\ \A f \in Files : \A c \in maybe[f] : c.at < tmp.at BY <1>1 DEF Ages, WriteSteps
<1>5. /\ \A f \in Files : \A c \in maybe[f] : c.at \in Nat
      /\ \A f \in Files : files[f] \in maybe[f] /\ files[f].at \in Nat
      /\ tmp.at \in Nat
  BY AgeFacts
<1>6. \A g \in Files : g # dst => files'[g].at < files'[dst].at BY <1>2, <1>3, <1>4, <1>5
<1>7. \A f, g \in Files : f # g => \A c \in maybe'[f], d \in maybe'[g] : c.at = d.at => c.at = 0
  <2> SUFFICES ASSUME NEW f \in Files, NEW g \in Files, f # g, NEW c \in maybe'[f], NEW d \in maybe'[g], c.at = d.at
               PROVE  c.at = 0
    OBVIOUS
  <2>1. c \in maybe[f] \/ (f = dst /\ c = tmp) BY <1>3
  <2>2. d \in maybe[g] \/ (g = dst /\ d = tmp) BY <1>3
  <2>3. CASE c \in maybe[f] /\ d \in maybe[g] BY <2>3 DEF Ages
  <2>4. CASE c \in maybe[f] /\ d = tmp BY <2>4, <1>4, <1>5
  <2>5. CASE c = tmp /\ d \in maybe[g] BY <2>5, <1>4, <1>5
  <2> QED BY <2>1, <2>2, <2>3, <2>4, <2>5
<1>8. \A f \in Files : \A c \in maybe'[f] : c = None \/ c.at > 0 BY <1>3, <1>4 DEF Ages
<1>9. pc' \notin WriteSteps \cup {"publish"} BY <1>1 DEF WriteSteps
<1>10. (NumSeq # 1 /\ slot' # NoSlot /\ ~(pc' = "dirsync" /\ dst \in Slots)) => NotNewest(slot)'
  <2> SUFFICES ASSUME NumSeq # 1, slot' # NoSlot, ~(pc' = "dirsync" /\ dst \in Slots) PROVE NotNewest(slot)' OBVIOUS
  <2>1. CASE dst \in Slots
    <3>1. Publish /\ NextSlot BY <2>1, <1>1 DEF Rename, Publish
    <3>2. dst = Slot(slot) /\ slot \in 0 .. NumSeq - 1
      BY <2>1, <1>1 DEF Cycle, Types, WriteSteps, NoSlot
    <3>3. \A g \in Slots \ {Slot(slot)} : files'[Slot(slot)].at > files'[g].at BY <3>2, <1>6, FileFacts
    <3> QED BY <3>1, <3>2, <3>3, NextNotNewest
  <2>2. CASE dst \notin Slots
    <3>1. slot' = slot BY <2>2 DEF Rename, Publish
    <3>2. \A g \in Slots : files'[g] = files[g] BY <2>2, <1>3, FileFacts
    <3>3. NotNewest(slot) BY <2>2, <3>1 DEF Ages
    <3>4. slot \in 0 .. NumSeq - 1 BY <3>1 DEF Types, NoSlot
    <3>5. Slot(slot) \in Slots BY <3>4, FileFacts
    <3> QED BY <3>1, <3>2, <3>3, <3>5 DEF NotNewest, Slots
  <2> QED BY <2>1, <2>2
<1> QED BY <1>1, <1>6, <1>7, <1>8, <1>9, <1>10 DEF Ages

\* A loss of power and damage keep the age of what they leave.
LEMMA LossAges ==
    ASSUME Types, Cycle, Ages, SyncDirs \/ LosePower \/ (\E f \in Files : Damage(f)) \/ Boot
    PROVE  Ages'
<1>1. /\ \A f \in Files : \A c \in maybe[f] : c \in Contents /\ c.at \in Nat
      /\ \A f \in Files : files[f] \in maybe[f] /\ files[f].at \in Nat
  BY AgeFacts
<1>2. CASE SyncDirs
  <2>1. /\ pc = "dirsync" /\ files' = files /\ \A f \in Files : maybe'[f] \in {maybe[f], {files[f]}}
        /\ \E ok \in BOOLEAN : Written(ok)
    BY <1>2 DEF SyncDirs, SyncDir
  <2>2. pc' \in {"open", "copy", "seqCopy", "idle"} BY <2>1 DEF Written, WriteTo, Idle
  <2>3. \A f, g \in Files : f # g => \A c \in maybe'[f], d \in maybe'[g] : c.at = d.at => c.at = 0
    BY <2>1, <1>1 DEF Ages
  <2>4. \A f \in Files : \A c \in maybe'[f] : c = None \/ c.at > 0 BY <2>1, <1>1 DEF Ages
  <2>5. (NumSeq # 1 /\ slot' # NoSlot) => NotNewest(slot)'
    <3> SUFFICES ASSUME NumSeq # 1, slot' # NoSlot PROVE NotNewest(slot)' OBVIOUS
    <3>1. CASE dst \in Slots
      <4>1. NextSlot BY <3>1, <2>1, FileFacts DEF Written
      <4>2. dst = Slot(slot) /\ slot \in 0 .. NumSeq - 1 BY <3>1, <2>1 DEF Cycle, Types, NoSlot
      <4>3. \A g \in Slots \ {Slot(slot)} : files[g].at < files[Slot(slot)].at
        BY <4>2, <2>1, FileFacts DEF Ages
      <4>4. \A g \in Slots \ {Slot(slot)} : files'[Slot(slot)].at > files'[g].at
        BY <4>2, <4>3, <2>1, <1>1, FileFacts
      <4> QED BY <4>1, <4>2, <4>4, NextNotNewest
    <3>2. CASE dst \notin Slots
      <4>1. slot' = slot BY <3>2, <2>1 DEF Written
      <4>2. NotNewest(slot) BY <3>2, <4>1 DEF Ages
      <4> QED BY <4>1, <4>2, <2>1 DEF NotNewest, Slots
    <3> QED BY <3>1, <3>2
  <2> QED BY <2>2, <2>3, <2>4, <2>5 DEF Ages, WriteSteps
<1>3. CASE LosePower
  <2>1. /\ \A f \in Files : maybe'[f] = {files'[f]}
        /\ \A f \in Files : \E c \in maybe[f] : files'[f] \in Survives(c)
    BY <1>3, PowerFiles
  <2>2. \A c \in Contents : \A d \in Survives(c) : d.at = c.at /\ (c = None => d = None)
    <3> SUFFICES ASSUME NEW c \in Contents, NEW d \in Survives(c) PROVE d.at = c.at /\ (c = None => d = None)
      OBVIOUS
    <3>1. CASE c.synced BY <3>1 DEF Survives
    <3>2. CASE ~c.synced
      <4>1. PICK w \in {c.whole, FALSE} : d = [c EXCEPT !.whole = w, !.synced = TRUE] BY <3>2 DEF Survives
      <4>2. d.at = c.at BY <4>1 DEF Contents
      <4>3. c # None BY <3>2 DEF None
      <4> QED BY <4>2, <4>3
    <3> QED BY <3>1, <3>2
  <2>3. \A f \in Files : \E c \in maybe[f] : files'[f].at = c.at /\ (c = None => files'[f] = None)
    BY <2>1, <2>2, <1>1
  <2>4. \A f, g \in Files : f # g => (files'[f].at = files'[g].at => files'[f].at = 0)
    BY <2>3 DEF Ages
  <2>5. \A f \in Files : files'[f] = None \/ files'[f].at > 0 BY <2>3 DEF Ages
  <2>6. pc' = "boot" /\ slot' = NoSlot BY <1>3 DEF LosePower, Restarted
  <2> QED BY <2>1, <2>4, <2>5, <2>6 DEF Ages, WriteSteps
<1>4. ASSUME NEW f \in Files, Damage(f) PROVE Ages'
  <2>1. /\ \A g \in Files : g # f => files'[g] = files[g] /\ maybe'[g] = maybe[g]
        /\ maybe'[f] = {files'[f]}
        /\ files'[f] = None \/ (files'[f].at = files[f].at /\ files'[f] # None)
    BY <1>4, DamageFiles
  <2>2. pc = "idle" /\ UNCHANGED <<pc, slot, dst>> /\ files[f] # None BY <1>4 DEF Damage
  <2>3. files'[f] = None \/ (files'[f].at > 0 /\ files'[f].at = files[f].at) BY <2>1, <2>2, <1>1 DEF Ages
  <2>4. None.at = 0 BY DEF None
  <2>5. \A g \in Files : \A c \in maybe'[g] : c = None \/ c.at > 0 BY <2>1, <2>3 DEF Ages
  <2>6. \A g \in Files : g # f => \A d \in maybe[g] : files[f].at = d.at => d.at = 0
    BY <1>1 DEF Ages
  <2>7. \A g, h \in Files : g # h => \A c \in maybe'[g], d \in maybe'[h] : c.at = d.at => c.at = 0
    BY <2>1, <2>3, <2>4, <2>6 DEF Ages
  <2>8. (NumSeq # 1 /\ slot # NoSlot) => NotNewest(slot)'
    <3> SUFFICES ASSUME NumSeq # 1, slot # NoSlot PROVE NotNewest(slot)' OBVIOUS
    <3>1. NotNewest(slot) BY <2>2 DEF Ages
    <3>2. Slot(slot) \in Slots
      <4>1. slot \in 0 .. NumSeq - 1 BY DEF Types, NoSlot
      <4> QED BY <4>1, FileFacts
    <3>3. \A g \in Slots : files'[g] = files[g] \/ files'[g] = None \/ (files'[g].at = files[g].at /\ files[g] # None)
      BY <2>1, <2>2, FileFacts
    <3>4. CASE files'[Slot(slot)] = None BY <3>4, <2>2 DEF NotNewest
    <3>5. CASE files'[Slot(slot)] # None
      <4>1. files[Slot(slot)] # None /\ files'[Slot(slot)].at = files[Slot(slot)].at BY <3>2, <3>3, <3>5
      <4>2. PICK g \in Slots \ {Slot(slot)} : files[g] = None \/ files[g].at > files[Slot(slot)].at
        BY <3>1, <4>1 DEF NotNewest
      <4>3. files'[g] = None \/ files'[g].at > files'[Slot(slot)].at BY <3>3, <4>1, <4>2
      <4> QED BY <4>3, <2>2 DEF NotNewest, Slots
    <3> QED BY <3>4, <3>5
  <2> QED BY <2>2, <2>5, <2>7, <2>8 DEF Ages, WriteSteps
<1>5. CASE Boot
  <2>1. UNCHANGED <<files, maybe, slot>> /\ pc = "boot" /\ pc' = "idle" BY <1>5 DEF Boot, Idle
  <2>2. (NumSeq # 1 /\ slot' # NoSlot) => NotNewest(slot)' BY <2>1 DEF Ages, NotNewest
  <2> QED BY <2>1, <2>2 DEF Ages, WriteSteps
<1> QED BY <1>2, <1>3, <1>4, <1>5

-----------------------------------------------------------------------------
\* The invariant: the cycle, and what the files hold while nothing but the
\* process, or the power, or one damaged file, has been against them.
AutosaveInv ==
    /\ Types /\ losses \in Nat /\ Cycle /\ Ages /\ Losses
    /\ damage = 0 => SavDurable /\ Reported /\ Restores
    /\ (damage = 0 /\ losses = 0) => Untorn
    /\ (damage <= 1 /\ losses = 0) => OneWhole

\* Nothing is there before the first boot.
LEMMA InitHolds ==
    ASSUME Init
    PROVE  AutosaveInv
<1>1. MaxSaves \in Nat /\ NumSeq \in Nat /\ MaxDamage \in Nat BY BoundsAssumption
<1>2. /\ files = [f \in Files |-> None] /\ maybe = [f \in Files |-> {None}] /\ tmp = None
      /\ pc = "boot" /\ dst = Sav /\ savb = "Ok" /\ inSeq = FALSE
      /\ gen = 0 /\ slot = NoSlot /\ saved = FALSE /\ restored = None /\ done = 0 /\ durable = 0
      /\ clock = 0 /\ damage = 0 /\ losses = 0
  BY DEF Init
<1>3. None \in Contents BY <1>1, <1>2 DEF None, Contents
<1>4. files \in [Files -> Contents] /\ maybe \in [Files -> SUBSET Contents] BY <1>2, <1>3
<1>5. \A f \in Files : files[f] = None /\ maybe[f] = {None} BY <1>2
<1>6. slot \in NoSlot .. NumSeq - 1 BY <1>1, <1>2 DEF NoSlot
<1>7. /\ gen \in 0 .. MaxSaves /\ done \in 0 .. gen /\ durable \in 0 .. done /\ clock \in Nat /\ damage \in 0 .. MaxDamage BY <1>1, <1>2
<1>8. pc \in Steps /\ inSeq \in BOOLEAN /\ saved \in BOOLEAN BY <1>2 DEF Steps
<1>9. Types BY <1>2, <1>3, <1>4, <1>5, <1>6, <1>7, <1>8, FileFacts DEF Types
<1>10. Cycle BY <1>2 DEF Cycle, WriteSteps
<1>11. None.at = 0 /\ None.gen = 0 BY DEF None
<1>12. Ages BY <1>2, <1>5, <1>11 DEF Ages, WriteSteps
<1>13. SavDurable BY <1>2, <1>5, <1>11, FileFacts DEF SavDurable
<1>14. Restores /\ Reported /\ OneWhole BY <1>2, <1>5, <1>11, FileFacts DEF Restores, Reported, OneWhole, WriteSteps
<1>16. Losses BY <1>2, <1>5 DEF Losses, LostIn, None
<1>15. Untorn BY <1>2, <1>5 DEF Untorn, NeverTorn
<1> QED BY <1>2, <1>9, <1>10, <1>12, <1>13, <1>14, <1>15, <1>16 DEF AutosaveInv

\* The cycle's steps, its failures, crashes, losses of power, damage and boots
\* keep all of it.
THEOREM AutosaveInvariant == Spec => []AutosaveInv
<1>1. Init => AutosaveInv BY InitHolds
<1>2. AutosaveInv /\ [Next]_vars => AutosaveInv'
  <2> SUFFICES ASSUME AutosaveInv, [Next]_vars PROVE AutosaveInv' OBVIOUS
  <2>1. CASE Next
    <3>1. Types /\ Cycle /\ Ages BY DEF AutosaveInv
    <3>2. Types'
      <4>1. CASE Quiet BY <3>1, <4>1, WriteTypes, CopyTypes DEF Quiet
      <4> QED BY <2>1, <3>1, <4>1, StepKinds, ChangeTypes
    <3>3. Cycle' BY <2>1, <3>1, CycleKept
    <3>4. Ages' BY <2>1, <3>1, <3>2, StepKinds, QuietAges, RenameAges, LossAges
    <3>5. /\ losses \in Nat /\ losses' \in Nat /\ (losses' = 0 => losses = 0 /\ ~LosePower)
          /\ damage \in Nat /\ (damage' = damage \/ damage' = damage + 1)
          /\ damage' = 0 => damage = 0 /\ \A f \in Files : ~Damage(f)
      BY <2>1, <3>1, CountsGrow, BoundsAssumption DEF AutosaveInv, Types
    <3>6. damage' = 0 => SavDurable' /\ Reported' /\ Restores'
      BY <2>1, <3>1, <3>5, SavKept, ReportedKept, RestoresKept DEF AutosaveInv, Untorn
    <3>7. (damage' = 0 /\ losses' = 0) => Untorn' BY <2>1, <3>1, <3>5, UntornKept DEF AutosaveInv
    <3>8. (damage' <= 1 /\ losses' = 0) => OneWhole'
      <4>1. damage' <= 1 => damage <= 1 BY <3>5
      <4> QED BY <2>1, <3>1, <3>5, <4>1, OneWholeKept DEF AutosaveInv
    <3>9. Losses' BY <2>1, <3>1, LossesKept DEF AutosaveInv
    <3> QED BY <3>2, <3>3, <3>4, <3>5, <3>6, <3>7, <3>8, <3>9 DEF AutosaveInv
  <2>2. CASE UNCHANGED vars
    BY <2>2 DEF AutosaveInv, vars, counts, Types, Contents, Cycle, Ages, NotNewest, SavDurable, Reported,
                Restores, Losses, LostIn, Untorn, NeverTorn, OneWhole, faults
  <2> QED BY <2>1, <2>2
<1> QED BY <1>1, <1>2, PTL DEF Spec

\* A boot finds the last reported save or a later one, after any number of
\* crashes of the process at any step, with any operation failing; after a loss
\* of power the last one reported with its directory synced, unless the .sav it
\* finds is one whose own sync failed; and it misses no value but one the save's
\* write lost.  Until power is lost no crash leaves a file without its marker,
\* and a boot finds one with it though a file was damaged from outside.
THEOREM BootFindsSave == Spec => []BootFindsNewest
<1>1. AutosaveInv => BootFindsNewest
  <2> SUFFICES ASSUME AutosaveInv PROVE BootFindsNewest OBVIOUS
  <2>1. TypeOK BY DEF AutosaveInv, Types, TypeOK
  <2>2. damage = 0 => SavDurable /\ RestoresNewest
    BY DEF AutosaveInv, Restores, Losses, LostIn, RestoresNewest
  <2>3. (damage = 0 /\ losses = 0) => NeverTorn BY DEF AutosaveInv, Untorn
  <2>4. (damage <= 1 /\ losses = 0) => DamageSurvived BY DEF AutosaveInv, OneWhole, DamageSurvived, Whole
  <2> QED BY <2>1, <2>2, <2>3, <2>4 DEF BootFindsNewest
<1> QED BY <1>1, AutosaveInvariant, PTL

\* With two sequence files or more the newest one is never copied over: the slot
\* in memory is not it, and neither is the one `oldest_seq_slot` finds again
\* after a restart, whatever a loss of power or damage did to them.
THEOREM NewestSlotStays == ASSUME NumSeq # 1 PROVE Spec => NewestSlotKept
<1> DEFINE Over(f) == files'[f] # files[f] /\ pc # "idle" /\ pc' # "boot" /\ files[f] # None
           Newer(f) == \E g \in Slots \ {f} : files[g] = None \/ files[g].at > files[f].at
<1>1. AutosaveInv /\ [Next]_vars => [\A f \in Slots : Over(f) => Newer(f)]_vars
  <2> SUFFICES ASSUME AutosaveInv, Next, NEW f \in Slots, Over(f) PROVE Newer(f)
    BY DEF vars
  <2>1. Types /\ Cycle /\ Ages BY DEF AutosaveInv
  <2>2. Rename \/ Publish
    <3>1. ~Quiet BY QuietFacts
    <3>2. ~SyncDirs /\ ~LosePower /\ ~Boot BY DEF SyncDirs, SyncDir, Overlooked, LosePower, Restarted, Boot
    <3>3. \A g \in Files : ~Damage(g) BY DEF Damage
    <3> QED BY <3>1, <3>2, <3>3, StepKinds
  <2>3. RenameTo(dst) /\ pc \in {"rename", "publish"} BY <2>2 DEF Rename, Publish
  <2>4. f = dst BY <2>1, <2>3, FileFacts DEF RenameTo, Types
  <2>5. slot # NoSlot /\ dst = Slot(slot) BY <2>1, <2>3, <2>4 DEF Cycle, WriteSteps
  <2>6. NotNewest(slot) BY <2>1, <2>3, <2>5 DEF Ages
  <2> QED BY <2>4, <2>5, <2>6 DEF NotNewest
<1> QED BY <1>1, AutosaveInvariant, PTL DEF Spec, NewestSlotKept
=============================================================================
