------------------------------ MODULE Autosave ------------------------------
(***************************************************************************)
(* The files of one autosave set (server/autosave): the save cycle that    *)
(* makes sure of the .savB, writes the .sav through a temporary file and   *)
(* advances the .savB, the sequence files, and what a boot restores, with  *)
(* a crash of the process or a loss of power between any two steps.        *)
(*                                                                         *)
(* A file's contents are the number of the save that wrote them, whether   *)
(* they end in the marker, whether values are missing before it, whether   *)
(* they have been synced, and their modification time.  A rename is        *)
(* durable once the directory is synced; until then a loss of power leaves *)
(* the old file or the new one, and may tear contents that were not        *)
(* synced.                                                                 *)
(***************************************************************************)
EXTENDS Integers

CONSTANTS
    NumSeq,         \* save_restoreNumSeqFiles
    MaxSaves,       \* bound: save cycles
    MaxSeqs,        \* bound: calls of do_seq
    MaxCrashes,     \* bound: crashes of the process
    MaxLosses,      \* bound: losses of power
    MaxErrors,      \* bound: file operations that fail
    MaxDamage       \* bound: files damaged or removed from outside

ASSUME BoundsAssumption ==
    {NumSeq, MaxSaves, MaxSeqs, MaxCrashes, MaxLosses, MaxErrors, MaxDamage} \subseteq Nat

Sav == <<"sav", 0>>
SavB == <<"savB", 0>>
Slot(i) == <<"seq", i>>
Slots == {Slot(i) : i \in 0 .. NumSeq - 1}
Files == {Sav, SavB} \cup Slots

VARIABLES
    files,      \* each file's contents
    maybe,      \* the contents a loss of power may leave under each name
    tmp,        \* the temporary file, of a write or of a copy
    pc, dst,    \* the save task: its step and the file it is writing
    savb,       \* SavbState of the cycle
    inSeq,      \* the cycle, or the copy, is do_seq's
    gen,        \* the number of the save whose values were last fetched
    slot,       \* seq.slot, or NoSlot
    saved,      \* last_save_file is set: a save has succeeded since the boot
    restored,   \* what the last boot restored
    done,       \* history: the last save reported, or durable at a loss of power
    durable,    \* history: the last save reported with its directory synced
    unsynced,   \* history: the saves whose .sav could not be synced
    lossy,      \* history: the saves that lost a value of an array
    clock, crashes, losses, errors, damage, seqs

counts == <<clock, crashes, losses, errors, damage, seqs>>
faults == <<unsynced, lossy>>
vars == <<files, maybe, tmp, pc, dst, savb, inSeq, gen, slot, saved, restored, done, durable, faults, counts>>

None == [gen |-> 0, whole |-> FALSE, lost |-> FALSE, synced |-> TRUE, at |-> 0]
NoSlot == -1
Whole(c) == c.whole     \* check_file: the end marker is there

Init ==
    /\ files = [f \in Files |-> None] /\ maybe = [f \in Files |-> {None}] /\ tmp = None
    /\ pc = "boot" /\ dst = Sav /\ savb = "Ok" /\ inSeq = FALSE
    /\ gen = 0 /\ slot = NoSlot /\ saved = FALSE /\ restored = None
    /\ done = 0 /\ durable = 0 /\ unsynced = {} /\ lossy = {}
    /\ clock = 0 /\ crashes = 0 /\ losses = 0 /\ errors = 0 /\ damage = 0 /\ seqs = 0

Idle == pc' = "idle" /\ inSeq' = FALSE

-----------------------------------------------------------------------------
(* The save cycle: `write_to`. *)

WriteTo(f) == pc' = "open" /\ dst' = f

\* `ensure_savb`: the .savB as it is, or one written from the new values.
ensure_savb ==
    IF Whole(files[SavB]) THEN savb' = "Ok" /\ WriteTo(Sav)
    ELSE savb' = "Rewritten" /\ WriteTo(SavB)

Save ==
    /\ pc = "idle" /\ gen < MaxSaves
    /\ gen' = gen + 1
    /\ ensure_savb
    /\ UNCHANGED <<files, maybe, tmp, inSeq, slot, saved, restored, done, durable, faults, counts>>

\* A file is not written: the cycle ends there, and do_seq goes on to its copy
\* if it was its cycle, or gives up.
GiveUp ==
    \/ inSeq /\ dst \notin Slots /\ pc' = "seqCopy" /\ UNCHANGED inSeq
    \/ ~(inSeq /\ dst \notin Slots) /\ Idle

\* A file operation fails: the temporary file is removed, unless it was the
\* rename that failed.
Fail(step) ==
    /\ pc = step /\ errors < MaxErrors
    /\ errors' = errors + 1
    /\ tmp' = IF step = "rename" THEN tmp ELSE None
    /\ GiveUp
    /\ UNCHANGED <<files, maybe, dst, savb, gen, slot, saved, restored, done, durable, faults,
                   clock, crashes, losses, damage, seqs>>

\* The open, a write that gives up, the close or the metadata, the rename.
WriteFails == \E step \in {"open", "write", "check", "rename"} : Fail(step)

OpenTmp ==
    /\ pc = "open"
    /\ tmp' = [gen |-> gen, whole |-> FALSE, lost |-> FALSE, synced |-> FALSE, at |-> clock + 1]
    /\ clock' = clock + 1
    /\ pc' = "write"
    /\ UNCHANGED <<files, maybe, dst, savb, inSeq, gen, slot, saved, restored, done, durable, faults,
                   crashes, losses, errors, damage, seqs>>

\* An operation that fails and is only printed, or ignored.
Overlooked(failed) ==
    /\ failed => errors < MaxErrors
    /\ errors' = IF failed THEN errors + 1 ELSE errors

\* `write_as_stdio`: a flush that fails is only printed, and leaves the file
\* short; an element of an array that is not written only counts against the
\* array's sum, and with the sum still positive the file goes on to its
\* marker without it.
WriteTmp(how) ==
    /\ pc = "write"
    /\ Overlooked(how # "full")
    /\ tmp' = [tmp EXCEPT !.whole = how # "short", !.lost = how = "lossy"]
    /\ lossy' = IF how = "lossy" THEN lossy \cup {gen} ELSE lossy
    /\ pc' = "sync"
    /\ UNCHANGED <<files, maybe, dst, savb, inSeq, gen, slot, saved, restored, done, durable, unsynced,
                   clock, crashes, losses, damage, seqs>>

\* `sync_all`, on the descriptor written: a failure is only printed.
SyncTmp(ok) ==
    /\ pc = "sync"
    /\ Overlooked(~ok)
    /\ tmp' = [tmp EXCEPT !.synced = ok]
    /\ unsynced' = IF ok \/ dst # Sav THEN unsynced ELSE unsynced \cup {gen}
    /\ pc' = "check"
    /\ UNCHANGED <<files, maybe, dst, savb, inSeq, gen, slot, saved, restored, done, durable, lossy,
                   clock, crashes, losses, damage, seqs>>

\* `check_file_blocking`: a short file is not renamed over the previous one.
CheckTmp ==
    /\ pc = "check"
    /\ IF Whole(tmp) THEN pc' = "rename" /\ UNCHANGED <<tmp, inSeq>>
       ELSE /\ tmp' = None
            /\ GiveUp
    /\ UNCHANGED <<files, maybe, dst, savb, gen, slot, saved, restored, done, durable, faults, counts>>

RenameTo(f) ==
    /\ files' = [files EXCEPT ![f] = tmp]
    /\ maybe' = [maybe EXCEPT ![f] = @ \cup {tmp}]
    /\ tmp' = None

Rename ==
    /\ pc = "rename"
    /\ RenameTo(dst)
    /\ pc' = "dirsync"
    /\ UNCHANGED <<dst, savb, inSeq, gen, slot, saved, restored, done, durable, faults, counts>>

NextSlot == slot' = IF slot + 1 >= NumSeq THEN 0 ELSE slot + 1

\* `write_save_file_with_settings` returns, the directory synced or not: from
\* the .savB to the .sav, from the .sav to `publish_savb`, which copies it
\* unless the .savB is this save's, and from a sequence file to its end.
Written(ok) ==
    \/ dst = SavB /\ WriteTo(Sav) /\ UNCHANGED <<inSeq, slot, saved, done, durable>>
    \/ /\ dst = Sav
       /\ done' = gen /\ saved' = TRUE
       /\ durable' = IF ok THEN gen ELSE durable
       /\ IF savb = "Ok" THEN pc' = "copy" /\ dst' = SavB /\ UNCHANGED inSeq
          ELSE IF inSeq THEN pc' = "seqCopy" /\ UNCHANGED <<dst, inSeq>>
          ELSE Idle /\ UNCHANGED dst
       /\ UNCHANGED slot
    \/ dst \in Slots /\ NextSlot /\ Idle /\ UNCHANGED <<dst, saved, done, durable>>

\* Mutant of SyncDir: the rename is not made durable.
SyncDir_Not(ok) ==
    /\ pc = "dirsync"
    /\ Overlooked(~ok)
    /\ Written(ok)
    /\ UNCHANGED <<files, maybe, tmp, savb, gen, restored, faults, clock, crashes, losses, damage, seqs>>

\* The directory is synced; one that cannot be opened or synced is ignored.
SyncDir(ok) ==
    /\ pc = "dirsync"
    /\ Overlooked(~ok)
    /\ maybe' = IF ok THEN [f \in Files |-> {files[f]}] ELSE maybe
    /\ Written(ok)
    /\ UNCHANGED <<files, tmp, savb, gen, restored, faults, clock, crashes, losses, damage, seqs>>

-----------------------------------------------------------------------------
(* `publish_copy` of the .sav, to the .savB or to a sequence file. *)

\* The source is read and written to the destination's temporary file, which
\* is not synced.
Copy ==
    /\ pc = "copy" /\ files[Sav] # None
    /\ tmp' = [files[Sav] EXCEPT !.synced = FALSE, !.at = clock + 1]
    /\ clock' = clock + 1
    /\ pc' = "publish"
    /\ UNCHANGED <<files, maybe, dst, savb, inSeq, gen, slot, saved, restored, done, durable, faults,
                   crashes, losses, errors, damage, seqs>>

Publish ==
    /\ pc = "publish"
    /\ RenameTo(dst)
    /\ IF dst \in Slots THEN NextSlot /\ Idle
       ELSE /\ UNCHANGED slot
            /\ IF inSeq THEN pc' = "seqCopy" /\ UNCHANGED inSeq ELSE Idle
    /\ UNCHANGED <<dst, savb, gen, saved, restored, done, durable, faults, counts>>

\* A copy that fails: the sequence file is then written from the values last
\* fetched; a .savB stays what it was.
CopyFails ==
    /\ \/ pc \in {"copy", "publish"} /\ errors < MaxErrors /\ errors' = errors + 1
       \/ pc = "copy" /\ files[Sav] = None /\ UNCHANGED errors
    /\ tmp' = None
    /\ IF dst \in Slots THEN pc' = "open" /\ UNCHANGED inSeq
       ELSE IF inSeq THEN pc' = "seqCopy" /\ UNCHANGED inSeq ELSE Idle
    /\ UNCHANGED <<files, maybe, dst, savb, gen, slot, saved, restored, done, durable, faults,
                   clock, crashes, losses, damage, seqs>>

\* Mutant of oldest_seq_slot: a restart begins at the first slot.
oldest_seq_slot_First == 0

\* `oldest_seq_slot`: the first that is not there, else the oldest.
oldest_seq_slot ==
    LET missing == {i \in 0 .. NumSeq - 1 : files[Slot(i)] = None}
    IN  IF missing # {} THEN CHOOSE i \in missing : \A j \in missing : i <= j
        ELSE CHOOSE i \in 0 .. NumSeq - 1 : \A j \in 0 .. NumSeq - 1 : files[Slot(i)].at <= files[Slot(j)].at

\* `do_seq`: a .sav that is not there is written first, through a cycle.
do_seq ==
    /\ pc = "idle" /\ NumSeq > 0 /\ saved /\ seqs < MaxSeqs
    /\ seqs' = seqs + 1
    /\ slot' = IF slot = NoSlot THEN oldest_seq_slot ELSE slot
    /\ inSeq' = TRUE
    /\ IF files[Sav] = None THEN ensure_savb ELSE pc' = "seqCopy" /\ UNCHANGED <<dst, savb>>
    /\ UNCHANGED <<files, maybe, tmp, gen, saved, restored, done, durable, faults,
                   clock, crashes, losses, errors, damage>>

SeqCopy ==
    /\ pc = "seqCopy"
    /\ pc' = "copy" /\ dst' = Slot(slot)
    /\ UNCHANGED <<files, maybe, tmp, savb, inSeq, gen, slot, saved, restored, done, durable, faults, counts>>

-----------------------------------------------------------------------------
(* Crashes, damage, and the boot. *)

Restarted ==
    /\ tmp' = None /\ pc' = "boot" /\ inSeq' = FALSE /\ slot' = NoSlot /\ saved' = FALSE
    /\ UNCHANGED <<dst, savb, gen, restored, durable, faults, clock, errors, damage, seqs>>

Crash ==
    /\ pc # "boot" /\ crashes < MaxCrashes
    /\ crashes' = crashes + 1
    /\ Restarted
    /\ UNCHANGED <<files, maybe, done, losses>>

\* What the disk may hold of contents after a loss of power.
Survives(c) == IF c.synced THEN {c} ELSE {[c EXCEPT !.whole = w, !.synced = TRUE] : w \in {c.whole, FALSE}}

Left(f) == UNION {Survives(c) : c \in maybe[f]}

LosePower ==
    /\ pc # "boot" /\ losses < MaxLosses
    /\ losses' = losses + 1
    /\ \E a \in Left(Sav), b \in Left(SavB), q \in [Slots -> UNION {Left(f) : f \in Slots}] :
        /\ \A f \in Slots : q[f] \in Left(f)
        /\ files' = [f \in Files |-> CASE f = Sav -> a [] f = SavB -> b [] f \in Slots -> q[f]]
        /\ maybe' = [f \in Files |-> {files'[f]}]
    /\ done' = durable
    /\ Restarted
    /\ UNCHANGED crashes

Damage(f) ==
    /\ pc = "idle" /\ damage < MaxDamage /\ files[f] # None
    /\ damage' = damage + 1
    /\ \E c \in {None, [files[f] EXCEPT !.whole = FALSE]} :
        files' = [files EXCEPT ![f] = c] /\ maybe' = [maybe EXCEPT ![f] = {c}]
    /\ UNCHANGED <<tmp, pc, dst, savb, inSeq, gen, slot, saved, restored, done, durable, faults,
                   clock, crashes, losses, errors, seqs>>

\* `check_restore_file`: only a file that ends in the marker is trusted (the
\* header written here names no version, and is not one of before 1.8).
check_restore_file(f) == Whole(files[f])

\* `fopen_and_check`: the .sav, the .savB, then the sequence files from the
\* newest.
fopen_and_check ==
    LET trusted == {f \in Files : check_restore_file(f)}
        seq == trusted \cap Slots
    IN  IF Sav \in trusted THEN files[Sav]
        ELSE IF SavB \in trusted THEN files[SavB]
        ELSE IF seq = {} THEN None
        ELSE files[CHOOSE f \in seq : \A g \in seq : files[g].at <= files[f].at]

Boot ==
    /\ pc = "boot"
    /\ restored' = fopen_and_check
    /\ Idle
    /\ UNCHANGED <<files, maybe, tmp, dst, savb, gen, slot, saved, done, durable, faults, counts>>

-----------------------------------------------------------------------------
SaveStep ==
    \/ Save \/ WriteFails \/ OpenTmp \/ \E how \in {"full", "lossy", "short"} : WriteTmp(how)
    \/ (\E ok \in BOOLEAN : SyncTmp(ok)) \/ CheckTmp \/ Rename \/ (\E ok \in BOOLEAN : SyncDir(ok))
    \/ Copy \/ Publish \/ CopyFails \/ do_seq \/ SeqCopy

Next == SaveStep \/ Crash \/ LosePower \/ (\E f \in Files : Damage(f)) \/ Boot

Spec == Init /\ [][Next]_vars

-----------------------------------------------------------------------------
Contents == [gen : 0 .. MaxSaves, whole : BOOLEAN, lost : BOOLEAN, synced : BOOLEAN, at : 0 .. clock]

TypeOK ==
    /\ files \in [Files -> Contents] /\ tmp \in Contents /\ restored \in Contents
    /\ \A f \in Files : files[f] \in maybe[f]
    /\ dst \in Files /\ savb \in {"Ok", "Rewritten"} /\ slot \in NoSlot .. NumSeq - 1

\* Nothing the process does, or fails at, leaves a file without its marker
\* under a name a restore reads, wherever it crashes (`write_save_file`,
\* `publish_copy`).
NeverTorn == \A f \in Files : files[f] # None => Whole(files[f])

\* A loss of power neither tears the .sav, unless it could not be synced, nor
\* takes back a save that was reported with its directory synced.
SavDurable ==
    \A c \in maybe[Sav] :
        /\ c.gen >= durable
        /\ c # None /\ c.gen \notin unsynced => Whole(c) /\ c.synced

\* A boot restores the last reported save, or one that was under way: after a
\* loss of power, the last reported as durable, unless the .sav it finds was
\* never synced.  It misses a value only if the save's write lost it.
RestoresNewest ==
    /\ (pc = "idle" /\ ~saved /\ done > 0 /\ (losses = 0 \/ files[Sav].gen \notin unsynced))
            => restored.gen >= done
    /\ restored.lost => restored.gen \in lossy

\* With one file damaged or removed from outside, a boot still finds a whole
\* file (`ensure_savb`, `publish_savb`, `fopen_and_check`).
DamageSurvived == (done > 0 /\ pc = "idle" /\ ~saved) => Whole(restored)

\* What a boot finds: until a file is damaged from outside, the last reported
\* save or one that was under way, whether the process crashed or power was
\* lost, but for a save whose own sync failed before the loss, and complete but
\* for a save that lost elements of an array (both only printed by
\* `write_save_file_with_settings`); until power is lost, no torn file but a
\* damaged one, and one with its marker though a file was damaged.
BootFindsNewest ==
    /\ TypeOK
    /\ damage = 0 => SavDurable /\ RestoresNewest
    /\ (damage = 0 /\ losses = 0) => NeverTorn
    /\ (damage <= 1 /\ losses = 0) => DamageSurvived

\* A sequence file is never copied over the newest one, though the slot to
\* use is forgotten at every restart (`oldest_seq_slot`).
NewestSlotKept ==
    [][\A f \in Slots : (files'[f] # files[f] /\ pc # "idle" /\ pc' # "boot" /\ files[f] # None)
            => \E g \in Slots \ {f} : files[g] = None \/ files[g].at > files[f].at]_vars
=============================================================================
