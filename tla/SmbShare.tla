------------------------------ MODULE SmbShare ------------------------------
(***************************************************************************)
(* The password of the SMB share (src/src/smb_runtime.py, src/src/windows/ *)
(* render.py and the second loop of src/scripts/entrypoint.sh).  WinPE is  *)
(* told the effective password: the one in smb.password if there is one,   *)
(* else the one of the environment.  A rotation writes a temporary file,   *)
(* renames it to smb.password, commits an activity and leaves smb.cmd; the *)
(* root loop then tells Samba.  The loop also starts smbd whenever it is   *)
(* not running.  The temporary file has one name, so handlers that rotate  *)
(* at once share it: one may empty it under another, and go on writing to  *)
(* a file that has become smb.password.                                    *)
(*                                                                         *)
(* A file holds a password, or 0 when it is empty, or does not exist.      *)
(***************************************************************************)
EXTENDS Integers

CONSTANTS SmbHandlers,   \* handlers that may rotate at once
          EnvPassword,   \* PXE_SMB_PASSWORD, or 0 when it is unset
          MaxPasswords   \* bound: passwords 1..MaxPasswords

ASSUME PasswordsAssumption ==
    /\ MaxPasswords \in Nat
    /\ EnvPassword \in 0..MaxPasswords

NoFile == -1

VARIABLES smbFile,      \* smb.password
          smbTmp,       \* smb.password.tmp
          smbCmd,       \* smb.cmd exists
          smbStep,      \* what each handler does next, see SmbSteps
          smbNew,       \* the password it has drawn and not written, or 0
          smbHelper,    \* the root loop: "poll", "apply" or "set"
          smbRead,      \* the password it has read
          samba,        \* the password of the Samba account, or 0
          smbd,         \* smbd runs
          smbDrawn,     \* passwords drawn so far
          smbFailed     \* history: what failed since the last request or start

smbVars == <<smbFile, smbTmp, smbCmd, smbStep, smbNew, smbHelper, smbRead,
             samba, smbd, smbDrawn, smbFailed>>

\* A handler in "write" holds smb.password.tmp open; in "late" it holds a file
\* that has since become smb.password, in "lost" one that has been replaced.
SmbSteps == {"idle", "write", "late", "lost", "rename", "commit", "request"}

\* An empty file is no password (_load_persisted_password).
Effective == IF smbFile > 0 THEN smbFile ELSE EnvPassword
-----------------------------------------------------------------------------
(* rotate_smb_password *)

\* save_persisted_password opens, and so empties, the temporary file.
RotateOpen(h) ==
    /\ smbStep[h] = "idle"
    /\ smbDrawn < MaxPasswords
    /\ smbDrawn' = smbDrawn + 1
    /\ smbNew' = [smbNew EXCEPT ![h] = smbDrawn + 1]
    /\ smbTmp' = 0
    /\ smbStep' = [smbStep EXCEPT ![h] = "write"]
    /\ UNCHANGED <<smbFile, smbCmd, smbHelper, smbRead, samba, smbd, smbFailed>>

\* The text lands in the file the handler has open, whatever its name is now.
RotateWrite(h) ==
    /\ smbStep[h] \in {"write", "late", "lost"}
    /\ smbTmp' = IF smbStep[h] = "write" THEN smbNew[h] ELSE smbTmp
    /\ smbFile' = IF smbStep[h] = "late" THEN smbNew[h] ELSE smbFile
    /\ smbNew' = [smbNew EXCEPT ![h] = 0]
    /\ smbStep' = [smbStep EXCEPT ![h] = "rename"]
    /\ UNCHANGED <<smbCmd, smbHelper, smbRead, samba, smbd, smbDrawn, smbFailed>>

\* What a handler does next once another has renamed the file it has open
Renamed(step) ==
    CASE step = "write" -> "late" [] step = "late" -> "lost" [] OTHER -> step

RotateRename(h) ==
    /\ smbStep[h] = "rename"
    /\ smbTmp # NoFile
    /\ smbFile' = smbTmp
    /\ smbTmp' = NoFile
    /\ smbStep' = [g \in SmbHandlers |->
                      IF g = h THEN "commit" ELSE Renamed(smbStep[g])]
    /\ UNCHANGED <<smbCmd, smbNew, smbHelper, smbRead, samba, smbd, smbDrawn,
                   smbFailed>>

\* Another handler has renamed the file: the page shows the error.
RotateMissesFile(h) ==
    /\ smbStep[h] = "rename"
    /\ smbTmp = NoFile
    /\ smbStep' = [smbStep EXCEPT ![h] = "idle"]
    /\ smbFailed' = smbFailed \union {"rename"}
    /\ UNCHANGED <<smbFile, smbTmp, smbCmd, smbNew, smbHelper, smbRead, samba,
                   smbd, smbDrawn>>

RotateCommit(h) ==
    /\ smbStep[h] = "commit"
    /\ smbStep' = [smbStep EXCEPT ![h] = "request"]
    /\ UNCHANGED <<smbFile, smbTmp, smbCmd, smbNew, smbHelper, smbRead, samba,
                   smbd, smbDrawn, smbFailed>>

RotateRequest(h) ==
    /\ smbStep[h] = "request"
    /\ smbCmd' = TRUE
    /\ smbStep' = [smbStep EXCEPT ![h] = "idle"]
    /\ smbFailed' = {}
    /\ UNCHANGED <<smbFile, smbTmp, smbNew, smbHelper, smbRead, samba, smbd,
                   smbDrawn>>

\* A write, the commit or the request fails, or the process is killed there.
RotateEnds(h) ==
    /\ smbStep[h] # "idle"
    /\ smbStep' = [smbStep EXCEPT ![h] = "idle"]
    /\ smbNew' = [smbNew EXCEPT ![h] = 0]
    /\ smbFailed' = IF smbStep[h] \in {"rename", "commit", "request"}
                     THEN smbFailed \union {"handler"} ELSE smbFailed
    /\ UNCHANGED <<smbFile, smbTmp, smbCmd, smbHelper, smbRead, samba, smbd,
                   smbDrawn>>
-----------------------------------------------------------------------------
(* The root loop *)

\* A request, or no smbd although a file or the environment may hold a password
SmbHelperTakes ==
    /\ smbHelper = "poll"
    /\ smbCmd \/ (~smbd /\ (smbFile # NoFile \/ EnvPassword # 0))
    /\ smbCmd' = FALSE
    /\ smbHelper' = "apply"
    /\ UNCHANGED <<smbFile, smbTmp, smbStep, smbNew, smbRead, samba, smbd,
                   smbDrawn, smbFailed>>

\* start_smbd begins; without a password it ends here.
HelperReads ==
    /\ smbHelper = "apply"
    /\ smbRead' = Effective
    /\ smbHelper' = IF Effective = 0 THEN "poll" ELSE "set"
    /\ UNCHANGED <<smbFile, smbTmp, smbCmd, smbStep, smbNew, samba, smbd,
                   smbDrawn, smbFailed>>

\* Mutated form: the request is removed once it has been carried out.
SetThenRemove ==
    /\ smbHelper = "set"
    /\ smbHelper' = "poll"
    /\ samba' = smbRead
    /\ smbd' = TRUE
    /\ smbCmd' = FALSE
    /\ UNCHANGED <<smbFile, smbTmp, smbRead, smbStep, smbNew, smbDrawn, smbFailed>>

\* smbpasswd may fail, and smbd may not start.
HelperSets ==
    /\ smbHelper = "set"
    /\ smbHelper' = "poll"
    /\ \/ /\ samba' = smbRead
          /\ smbd' \in {TRUE, smbd}
          /\ UNCHANGED smbFailed
       \/ /\ smbFailed' = smbFailed \union {"smbpasswd"}
          /\ UNCHANGED <<samba, smbd>>
    /\ UNCHANGED <<smbFile, smbTmp, smbCmd, smbRead, smbStep, smbNew, smbDrawn>>

SmbdDies ==
    /\ smbd
    /\ smbd' = FALSE
    /\ UNCHANGED <<smbFile, smbTmp, smbCmd, smbStep, smbNew, smbHelper, smbRead,
                   samba, smbDrawn, smbFailed>>

\* The Samba account is part of the container and gone with it or kept.
SmbRestartHost ==
    /\ smbStep' = [h \in SmbHandlers |-> "idle"]
    /\ smbNew' = [h \in SmbHandlers |-> 0]
    /\ smbHelper' = "apply"
    /\ smbd' = FALSE
    /\ samba' \in {samba, 0}
    /\ smbFailed' = {}
    /\ UNCHANGED <<smbFile, smbTmp, smbCmd, smbRead, smbDrawn>>
-----------------------------------------------------------------------------
SmbInit ==
    /\ smbFile = NoFile
    /\ smbTmp = NoFile
    /\ smbCmd = FALSE
    /\ smbStep = [h \in SmbHandlers |-> "idle"]
    /\ smbNew = [h \in SmbHandlers |-> 0]
    /\ smbHelper = "apply"
    /\ smbRead = 0
    /\ samba = 0
    /\ smbd = FALSE
    /\ smbDrawn = EnvPassword
    /\ smbFailed = {}

SmbNext ==
    \/ \E h \in SmbHandlers :
           \/ RotateOpen(h) \/ RotateWrite(h)
           \/ RotateRename(h) \/ RotateMissesFile(h)
           \/ RotateCommit(h) \/ RotateRequest(h) \/ RotateEnds(h)
    \/ SmbHelperTakes \/ HelperReads \/ HelperSets
    \/ SmbdDies \/ SmbRestartHost

SmbSpec == SmbInit /\ [][SmbNext]_smbVars
-----------------------------------------------------------------------------
(* Properties *)

\* Type correctness.
SmbTypeOK ==
    /\ smbFile \in NoFile..MaxPasswords /\ smbTmp \in NoFile..MaxPasswords
    /\ smbCmd \in BOOLEAN
    /\ smbStep \in [SmbHandlers -> SmbSteps]
    /\ smbNew \in [SmbHandlers -> 0..MaxPasswords]
    /\ smbHelper \in {"poll", "apply", "set"}
    /\ smbRead \in 0..MaxPasswords
    /\ samba \in 0..MaxPasswords
    /\ smbd \in BOOLEAN
    /\ smbDrawn \in 0..MaxPasswords
    /\ smbFailed \subseteq {"handler", "smbpasswd", "rename"}

SmbSettled ==
    /\ \A h \in SmbHandlers : smbStep[h] = "idle"
    /\ ~smbCmd /\ smbHelper = "poll"

OpensAsTold == Effective # 0 => samba = Effective

(***************************************************************************)
(* "New WinPE boots use the new password" (settings_pages.py:77): once no  *)
(* rotation is under way and no request waits, the password that WinPE is  *)
(* told opens the share, in whatever order the rotations overlapped and    *)
(* whatever they did to the temporary file they share.  Excused, until the *)
(* next request or restart: a rotation that failed or was killed once it   *)
(* had written its text, one that no longer found the file it was to       *)
(* rename, and a smbpasswd that failed.                                    *)
(***************************************************************************)
ShareOpensAsTold == SmbSettled /\ smbFailed = {} => OpensAsTold

=============================================================================
