-------------------------- MODULE HttpsCertificate --------------------------
(***************************************************************************)
(* The certificate of the console and the HTTPS process that serves it     *)
(* (src/src/tls_store.py and src/scripts/run-web.sh).  Certificate and key *)
(* are two files, each replaced by a rename; a handler that has replaced   *)
(* them leaves ssl.reload, and the supervisor then restarts HTTPS.  Nobody *)
(* else restarts it.                                                       *)
(*                                                                         *)
(* Pairs are numbered; a certificate fits the key of the same number only. *)
(***************************************************************************)
EXTENDS Naturals, Sequences

CONSTANT MaxPairs   \* bound: pairs ever made or uploaded

ASSUME PairsAssumption == MaxPairs \in Nat

VARIABLES tlsFiles,     \* crt, key: the number of their pair or 0; source
          tlsReload,    \* ssl.reload exists
          tlsWriter,    \* what the handlers of the two processes are at
          tlsLoop,      \* the supervisor
          tlsPairs,     \* pairs made so far
          https,        \* the pair HTTPS serves, or 0 when it is down
          tlsDisturbed  \* history: since the last write that ran alone, one
                        \* failed or was overlapped, or HTTPS crashed

tlsVars == <<tlsFiles, tlsReload, tlsWriter, tlsLoop, tlsPairs, https,
             tlsDisturbed>>

Processes == {"http", "https"}
Sources == {"none", "operator", "self-signed"}

(***************************************************************************)
(* todo    the steps left: replacing each file, checking that the pair     *)
(*         loads, asking for a reload                                      *)
(* source  of the pair it writes, with the number pair                     *)
(* alone   nobody else has written since this one began                    *)
(***************************************************************************)
TlsNotWriting == [todo |-> <<>>, pair |-> 0, source |-> "none", alone |-> TRUE]

TlsBusy == {p \in Processes : tlsWriter[p] # TlsNotWriting}

\* A process takes requests while it is up and not being stopped.
Takes(p) ==
    /\ tlsWriter[p] = TlsNotWriting
    /\ p = "https" => https # 0 /\ tlsLoop = "watch"

Whole(files) == files.crt # 0 /\ files.crt = files.key

\* The pair an HTTPS process started on these files serves
Served(files) == IF Whole(files) THEN files.crt ELSE 0
-----------------------------------------------------------------------------
(* Handlers *)

TlsBegin(p, source, todo) ==
    /\ Takes(p)
    /\ tlsPairs < MaxPairs
    /\ tlsPairs' = tlsPairs + 1
    /\ tlsWriter' = [q \in Processes |->
           IF q = p THEN [todo |-> todo, pair |-> tlsPairs + 1,
                          source |-> source, alone |-> TlsBusy = {}]
           ELSE IF q \in TlsBusy THEN [tlsWriter[q] EXCEPT !.alone = FALSE]
           ELSE tlsWriter[q]]
    /\ tlsDisturbed' = (tlsDisturbed \/ TlsBusy # {})
    /\ UNCHANGED <<tlsFiles, tlsReload, tlsLoop, https>>

\* Mutated form: HTTPS is told before the files are there.
UploadReloadFirst(p) ==
    TlsBegin(p, "operator", <<"reload", "crt", "key", "source", "load">>)

\* install_pem, of a certificate and a key that fit; others are refused.
Upload(p) == TlsBegin(p, "operator", <<"crt", "key", "source", "reload", "load">>)

\* settings_ssl_regenerate
Regenerate(p) ==
    TlsBegin(p, "self-signed", <<"crt", "key", "source", "load", "reload">>)

\* ensure_tls_material, when a settings page is shown and there is no file
ShowWithout(p) ==
    /\ tlsFiles.crt = 0 /\ tlsFiles.key = 0
    /\ TlsBegin(p, "self-signed", <<"crt", "key", "source", "load">>)

\* The same with a pair that loads but no note of its origin
ShowUnnoted(p) ==
    /\ Takes(p)
    /\ Whole(tlsFiles) /\ tlsFiles.source = "none"
    /\ tlsFiles' = [tlsFiles EXCEPT !.source = "operator"]
    /\ UNCHANGED <<tlsReload, tlsWriter, tlsLoop, tlsPairs, https, tlsDisturbed>>

(***************************************************************************)
(* A step that leaves nothing to do ends the write.  One that ran alone    *)
(* and asked for a reload has repaired what was wrong before it.           *)
(***************************************************************************)
Continue(p) ==
    LET me == tlsWriter[p]
        rest == Tail(me.todo)
        heals == me.alone /\ \E k \in DOMAIN me.todo : me.todo[k] = "reload"
    IN  /\ tlsWriter' = [tlsWriter EXCEPT
                ![p] = IF rest = <<>> THEN TlsNotWriting ELSE [@ EXCEPT !.todo = rest]]
        /\ tlsDisturbed' = (tlsDisturbed /\ ~heals)

NextIs(p, step) == tlsWriter[p].todo # <<>> /\ Head(tlsWriter[p].todo) = step

ReplaceFile(p, name, value) ==
    /\ NextIs(p, name)
    /\ tlsFiles' = [tlsFiles EXCEPT ![name] = value]
    /\ Continue(p)
    /\ UNCHANGED <<tlsReload, tlsLoop, tlsPairs, https>>

WriteCertificate(p) == ReplaceFile(p, "crt", tlsWriter[p].pair)
WriteKey(p) == ReplaceFile(p, "key", tlsWriter[p].pair)
WriteSource(p) == ReplaceFile(p, "source", tlsWriter[p].source)

LoadPair(p) ==
    /\ NextIs(p, "load")
    /\ Whole(tlsFiles)
    /\ Continue(p)
    /\ UNCHANGED <<tlsFiles, tlsReload, tlsLoop, tlsPairs, https>>

RequestReload(p) ==
    /\ NextIs(p, "reload")
    /\ tlsReload' = TRUE
    /\ Continue(p)
    /\ UNCHANGED <<tlsFiles, tlsLoop, tlsPairs, https>>

\* The pair does not load, a file cannot be written, or the process dies.
TlsWriteFails(p) ==
    /\ p \in TlsBusy
    /\ tlsWriter' = [tlsWriter EXCEPT ![p] = TlsNotWriting]
    /\ tlsDisturbed' = TRUE
    /\ UNCHANGED <<tlsFiles, tlsReload, tlsLoop, tlsPairs, https>>
-----------------------------------------------------------------------------
(* The supervisor: "watch", "stop" (the request is removed), "start" *)

LoopTakes ==
    /\ tlsLoop = "watch" /\ tlsReload
    /\ tlsReload' = FALSE
    /\ tlsLoop' = "stop"
    /\ UNCHANGED <<tlsFiles, tlsWriter, tlsPairs, https, tlsDisturbed>>

\* It waits for the process, which first finishes what it is doing.
LoopStops ==
    /\ tlsLoop = "stop"
    /\ "https" \notin TlsBusy
    /\ https' = 0
    /\ tlsLoop' = "start"
    /\ UNCHANGED <<tlsFiles, tlsReload, tlsWriter, tlsPairs, tlsDisturbed>>

LoopStarts ==
    /\ tlsLoop = "start"
    /\ https' = Served(tlsFiles)
    /\ tlsLoop' = "watch"
    /\ UNCHANGED <<tlsFiles, tlsReload, tlsWriter, tlsPairs, tlsDisturbed>>

HttpsDies ==
    /\ https # 0
    /\ https' = 0
    /\ tlsWriter' = [tlsWriter EXCEPT !["https"] = TlsNotWriting]
    /\ tlsDisturbed' = TRUE
    /\ UNCHANGED <<tlsFiles, tlsReload, tlsLoop, tlsPairs>>

(***************************************************************************)
(* The container starts: the entrypoint makes a pair when there is no file *)
(* at all (which may fail), and HTTPS is started once.                     *)
(***************************************************************************)
StartOn(files) ==
    /\ tlsFiles' = files
    /\ https' = Served(files)
    /\ tlsWriter' = [p \in Processes |-> TlsNotWriting]
    /\ tlsLoop' = "watch"
    /\ tlsDisturbed' = ~Whole(files)

TlsRestartHost ==
    /\ \/ /\ tlsFiles.crt = 0 /\ tlsFiles.key = 0 /\ tlsPairs < MaxPairs
          /\ tlsPairs' = tlsPairs + 1
          /\ StartOn([crt |-> tlsPairs + 1, key |-> tlsPairs + 1,
                      source |-> "self-signed"])
       \/ /\ StartOn([tlsFiles EXCEPT !.source =
                 IF Whole(tlsFiles) /\ @ = "none" THEN "operator" ELSE @])
          /\ UNCHANGED tlsPairs
    /\ UNCHANGED tlsReload
-----------------------------------------------------------------------------
TlsInit ==
    /\ tlsFiles = [crt |-> 0, key |-> 0, source |-> "none"]
    /\ tlsReload = FALSE
    /\ tlsWriter = [p \in Processes |-> TlsNotWriting]
    /\ tlsLoop = "watch"
    /\ tlsPairs = 0
    /\ https = 0
    /\ tlsDisturbed = TRUE

TlsNext ==
    \/ \E p \in Processes :
           \/ Upload(p) \/ Regenerate(p) \/ ShowWithout(p) \/ ShowUnnoted(p)
           \/ WriteCertificate(p) \/ WriteKey(p) \/ WriteSource(p)
           \/ LoadPair(p) \/ RequestReload(p) \/ TlsWriteFails(p)
    \/ LoopTakes \/ LoopStops \/ LoopStarts
    \/ HttpsDies \/ TlsRestartHost

TlsSpec == TlsInit /\ [][TlsNext]_tlsVars
-----------------------------------------------------------------------------
(* Properties *)

\* Type correctness.
TlsTypeOK ==
    /\ tlsFiles \in [crt : 0..MaxPairs, key : 0..MaxPairs, source : Sources]
    /\ tlsReload \in BOOLEAN
    /\ \A p \in Processes :
           /\ tlsWriter[p].pair \in 0..MaxPairs
           /\ tlsWriter[p].source \in Sources
           /\ tlsWriter[p].alone \in BOOLEAN
    /\ tlsLoop \in {"watch", "stop", "start"}
    /\ tlsPairs \in 0..MaxPairs
    /\ https \in 0..MaxPairs
    /\ tlsDisturbed \in BOOLEAN

(***************************************************************************)
(* When everybody is done, the two files are one pair and HTTPS serves it. *)
(* The history variable excuses what a crash between the two renames, two  *)
(* uploads at once or the death of HTTPS left behind, until a write has    *)
(* run on its own or a restart has found a whole pair.                     *)
(***************************************************************************)
TlsSettled == TlsBusy = {} /\ ~tlsReload /\ tlsLoop = "watch"

HttpsServesThePair ==
    TlsSettled /\ ~tlsDisturbed => Whole(tlsFiles) /\ https = tlsFiles.crt
=============================================================================
