----------------------------- MODULE MCUploads -----------------------------
(* Model checking of TextureVersions and UploadRecovery: the two ways bytes a  *)
(* game writes reach what its draws read. They share no state here, so a       *)
(* behaviour moves one of them: the states are their sum and not their product. *)
EXTENDS TextureVersions

CONSTANTS MaxFrames, MaxUploads, MaxReissue, Keys, Ranges

VARIABLES
    part,       \* the component this behaviour moves
    submit_seq, encoder, gate, pending_uploads, frame_blits, generation, gone, uploads, fate,
    blits, up, dr, memory, coherent_seq, upload_coherent_seq, failed_seq

U == INSTANCE UploadRecovery WITH MaxSeq <- MaxFrames, seq <- submit_seq,
                                  pending <- pending_uploads

uploadVars == <<submit_seq, encoder, gate, pending_uploads, frame_blits, generation, gone, uploads,
                fate, blits, up, dr, memory, coherent_seq, upload_coherent_seq, failed_seq>>
all == <<part, vars, uploadVars>>

\* Versions are interchangeable, and so are the ranges of a buffer.
Symmetry == Permutations(Versions) \cup Permutations(Ranges)

MCInit ==
    /\ part \in {"buffers", "texture"}
    /\ Init /\ U!Init
    /\ part = "buffers" => live = CHOOSE v \in Versions : TRUE

MCNext ==
    \/ part = "buffers" /\ U!Next /\ UNCHANGED <<part, vars>>
    \/ part = "texture" /\ Next /\ UNCHANGED <<part, uploadVars>>

MCSpec == MCInit /\ [][MCNext]_all

-----------------------------------------------------------------------------
(* UploadRecovery: an upload's source is freed as acknowledged only if a buffer *)
(* that carried its copy completed, and no buffer still queued reads it then    *)
(* (encoder.rs, upload_gate).                                                  *)
AcknowledgedHasLanded == U!AcknowledgedHasLanded

(* UploadRecovery: a range whose newest upload is acknowledged holds that      *)
(* upload and no older one, whatever was replayed around it                    *)
(* (upload_recovery.rs:91-98).                                                 *)
NewestBytesWin == U!NewestBytesWin
=============================================================================
