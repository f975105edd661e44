----------------------------- MODULE RcpImages ------------------------------
(***************************************************************************)
(* esp_rcp_update.c: which of the two firmware directories is flashed to   *)
(* the radio co-processor.  The choice is a sequence number and a flag,    *)
(* kept in s_handle and in one byte of the NVS; without the flag it is the *)
(* other directory that is used.  The device may restart at any time, and  *)
(* then begins with what the NVS holds.                                    *)
(***************************************************************************)
EXTENDS Integers

CONSTANTS
    MaxImages,    \* bound on the images downloaded
    MaxNvsErrors  \* bound on the writes of the NVS that fail

VARIABLES
    handle,     \* s_handle: [seq, verified]
    nvs,        \* the byte stored, as [seq, verified], or NoByte
    dirs,       \* what is in each directory: an image's number, Partial or Missing
    loading,    \* the directory a download writes to, or Nowhere
    images,     \* images downloaded so far
    errors,     \* NVS errors so far
    lost,       \* ghost: the last change of handle did not reach the NVS
    strayed     \* ghost: the client has chosen a directory without a complete
                \* image, or downloaded into the one the NVS still chooses

vars == <<handle, nvs, dirs, loading, images, errors, lost, strayed>>

NoByte == [seq |-> -1, verified |-> FALSE]
Missing == -1
Partial == -2
Nowhere == -1

\* load_rcp_update_seq.
Load(byte) == IF byte = NoByte THEN [seq |-> 0, verified |-> TRUE] ELSE byte

\* esp_rcp_get_update_seq.
UpdateSeq(h) == IF h.verified THEN h.seq ELSE 1 - h.seq
NextUpdateSeq(h) == 1 - UpdateSeq(h)

\* The directory esp_rcp_update would flash from after a restart.
Stored == UpdateSeq(Load(nvs))

\* s_handle is changed before the NVS is written, and stays changed when
\* nvs_set_i8 fails (the old byte stays) or nvs_commit does (either may).
Store(h) ==
    /\ handle' = h
    /\ \/ nvs' = h /\ UNCHANGED errors
       \/ errors < MaxNvsErrors /\ errors' = errors + 1 /\ nvs' \in {nvs, h}
    /\ lost' = (nvs' # h)

\* The client writes the new image to the directory of the next number and
\* submits it when it is complete.
StartDownload ==
    /\ loading = Nowhere /\ images < MaxImages
    /\ loading' = NextUpdateSeq(handle)
    /\ dirs' = [dirs EXCEPT ![loading'] = Partial]
    /\ images' = images + 1
    /\ strayed' = (strayed \/ loading' = Stored)
    /\ UNCHANGED <<handle, nvs, errors, lost>>

SubmitNewImage ==
    /\ loading # Nowhere
    /\ dirs' = [dirs EXCEPT ![loading] = images]
    /\ loading' = Nowhere
    /\ Store([seq |-> NextUpdateSeq(handle), verified |-> TRUE])
    /\ UNCHANGED <<images, strayed>>

Marked(h, ok) == [seq |-> UpdateSeq(h), verified |-> ok]

\* Nothing looks at what is in the directory that is chosen.
Mark(h) ==
    /\ Store(h)
    /\ strayed' = (strayed \/ dirs[UpdateSeq(h)] < 0)
    /\ UNCHANGED <<dirs, loading, images>>

MarkImageVerified(ok) == Mark(Marked(handle, ok))

MarkImageUnusable == Mark([handle EXCEPT !.verified = FALSE])

Restart ==
    /\ handle' = Load(nvs) /\ loading' = Nowhere /\ lost' = FALSE
    /\ UNCHANGED <<nvs, dirs, images, errors, strayed>>

Init ==
    /\ nvs = NoByte /\ handle = Load(NoByte)
    /\ dirs = [d \in {0, 1} |-> IF d = 0 THEN 0 ELSE Missing]
    /\ loading = Nowhere /\ images = 0 /\ errors = 0 /\ lost = FALSE
    /\ strayed = FALSE

Next ==
    \/ StartDownload
    \/ SubmitNewImage
    \/ \E ok \in BOOLEAN : MarkImageVerified(ok)
    \/ MarkImageUnusable
    \/ Restart

Spec == Init /\ [][Next]_vars

(***************************************************************************)
(* Properties                                                              *)
(***************************************************************************)

\* A restart goes on with the directory that was used before it, unless the last
\* change of s_handle did not reach the NVS.
RestartKeepsChoice == ~lost => Stored = UpdateSeq(handle)

\* The directory that esp_rcp_update flashes from, now and after a restart, holds
\* a complete image, whenever the download of another was cut off and whichever
\* writes of the NVS failed.  There are two exceptions: the client marked an image
\* as unusable or not verified and there was no other, or it began a download
\* after a write that failed, into the directory the NVS still chooses.
ChosenIsComplete == ~strayed => dirs[Stored] >= 0 /\ dirs[UpdateSeq(handle)] >= 0

(***************************************************************************)
(* The inductive invariant of the proofs                                   *)
(***************************************************************************)

Choice == [seq : {0, 1}, verified : BOOLEAN]

\* The chosen directories are complete and a download goes to one that is not,
\* hence to the one that is submitted.
RcpInv ==
    /\ handle \in Choice /\ nvs \in Choice \cup {NoByte}
    /\ dirs \in [{0, 1} -> Int] /\ images \in Nat /\ errors \in Nat
    /\ loading \in {Nowhere, 0, 1} /\ lost \in BOOLEAN /\ strayed \in BOOLEAN
    /\ ~lost => Load(nvs) = handle
    /\ loading # Nowhere => dirs[loading] = Partial
    /\ ~strayed => dirs[Stored] >= 0 /\ dirs[UpdateSeq(handle)] >= 0

=============================================================================
