---------------------------- MODULE HostServices ----------------------------
(***************************************************************************)
(* What runs in the container beside the provisioning protocol: dnsmasq,   *)
(* the HTTPS process, Samba, Ganesha and the iPXE build, each driven       *)
(* through files by web processes that come and go, and the worker's list  *)
(* of install sources.  They share no state.  What they do share are       *)
(* events: a new certificate restarts the HTTPS process, which makes it    *)
(* write the DHCP files (StartWeb) and ends its iPXE build (ProcessEnds),  *)
(* and a restart of the container ends all (BackfillSources).              *)
(* Each component takes these steps whenever it likes, which is more than  *)
(* the others can do to it; so one of them moves in a behaviour, the one   *)
(* named by focus, and the others stand still.                             *)
(***************************************************************************)
EXTENDS DnsmasqSettings, HttpsCertificate, SmbShare, NfsExports, IpxeBuild,
        InstallSources

VARIABLE focus   \* the component that moves

hostVars == <<focus, dhcpVars, tlsVars, smbVars, nfsVars, ipxeVars, libVars>>

Focuses == {"dnsmasq", "https", "samba", "ganesha", "ipxe", "library"}

Init ==
    /\ focus \in Focuses
    /\ DhcpInit /\ TlsInit /\ SmbInit /\ NfsInit /\ IpxeInit
    /\ IF focus = "library" THEN SourcesInit ELSE SourcesIdle

Dnsmasq ==
    /\ focus = "dnsmasq" /\ DhcpNext
    /\ UNCHANGED <<focus, tlsVars, smbVars, nfsVars, ipxeVars, libVars>>

Https ==
    /\ focus = "https" /\ TlsNext
    /\ UNCHANGED <<focus, dhcpVars, smbVars, nfsVars, ipxeVars, libVars>>

Samba ==
    /\ focus = "samba" /\ SmbNext
    /\ UNCHANGED <<focus, dhcpVars, tlsVars, nfsVars, ipxeVars, libVars>>

Ganesha ==
    /\ focus = "ganesha" /\ NfsNext
    /\ UNCHANGED <<focus, dhcpVars, tlsVars, smbVars, ipxeVars, libVars>>

Ipxe ==
    /\ focus = "ipxe" /\ IpxeNext
    /\ UNCHANGED <<focus, dhcpVars, tlsVars, smbVars, nfsVars, libVars>>

Library ==
    /\ focus = "library" /\ SourcesNext
    /\ UNCHANGED <<focus, dhcpVars, tlsVars, smbVars, nfsVars, ipxeVars>>

Next == Dnsmasq \/ Https \/ Samba \/ Ganesha \/ Ipxe \/ Library

Spec == Init /\ [][Next]_hostVars

GaneshaLoop == NfsLoopStep /\ Ganesha

\* The loop runs as long as the container does.
FairSpec == Spec /\ WF_hostVars(GaneshaLoop)
-----------------------------------------------------------------------------
\* Type correctness.
TypeOK ==
    /\ focus \in Focuses
    /\ DhcpTypeOK /\ TlsTypeOK /\ SmbTypeOK /\ NfsTypeOK /\ IpxeTypeOK
    /\ SourcesTypeOK

\* ExportsCatchUp of NfsExports, where Ganesha's loop runs.
ExportsFollow == focus = "ganesha" => ExportsCatchUp
=============================================================================
