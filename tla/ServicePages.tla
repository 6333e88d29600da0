---------------------------- MODULE ServicePages ----------------------------
(***************************************************************************)
(* The pages of the console that show what servers do for the domain:      *)
(* shares, printers, tunnels, addresses and names, network access,         *)
(* certificates, remote desktops, roles and the password manager.  The     *)
(* tables a form writes are those of its handlers in api/odm.              *)
(***************************************************************************)
EXTENDS PageForms

ShareForm(slot) == Queued(Dialog(slot, {"shares.create", "shares.update"}, {"file_share"}))

StopSharing ==
  TaskFirst(Swallowed(Unguarded(Dialog("removing", {"shares.remove"}, {"file_share"}))))

SharesPage ==
  Part({"shares.list"}, "shares", "working", {"file_share"},
       {ShareForm("creating"), ShareForm("open"), StopSharing})

PrinterForm ==
  Queued(Dialog("editing", {"printers.create", "printers.update"}, {"printer"}))

RemovePrinter ==
  TaskFirst(Swallowed(Unguarded(Dialog("removing", {"printers.remove"}, {"printer"}))))

PrintersPage ==
  Part({"printers.list"}, "printers", "working", {"printer"}, {PrinterForm, RemovePrinter})

\* Sent as its dialog opens, which then asks how it went, and two seconds
\* after each answer again until it is over; a failed one ends that.
TestPage ==
  Part({"printers.testResult"}, "nothing", "chain", {},
       {Queued(Row({"printers.test"}, {}))})

TunnelForm == Queued(Dialog("creating", {"vpn.create"}, {"vpn_tunnel"}))

VpnPage == Part({"vpn.list"}, "vpn", "never", {"vpn_tunnel"}, {TunnelForm})

\* The peers of the tunnel that is selected are read when it is, and after
\* what is done to them here; no event reads them again.
PeerForm == Tasked(Dialog("adding", {"vpn.addPeer"}, {"vpn_peer"}))

VpnPeers ==
  Keyed(Part({"vpn.peers", "vpn.configurationUrl"}, "nothing", "never", {},
             {PeerForm, Tasked(Swallowed(Row({"vpn.removePeer"}, {"vpn_peer"})))}))

ScopeForm       == Dialog("dialog", {"dhcp.createScope"}, {})
EditScopeForm   == Dialog("dialog", {"dhcp.updateScope"}, {})
ReservationForm == Dialog("dialog", {"dhcp.addReservation"}, {})

\* Awaited with nothing around it: a refusal is told nowhere, and the dialog
\* stays.
DeleteReservation == Unguarded(Dialog("dialog", {"dhcp.deleteReservation"}, {}))

DhcpPage ==
  Part({"dhcp.status", "roles.list", "dhcp.scopes"}, "dhcp", "never", {},
       {ScopeForm, EditScopeForm, ReservationForm, DeleteReservation,
        Row({"dhcp.deleteScope"}, {})})

DhcpLeases == Part({"dhcp.leases"}, "nothing", "never", {}, {})

ZoneForm == Dialog("creating", {"dns.createZone", "dns.createReverseZone"}, {})

RemoveZone == Dismissed(Unguarded(Dialog("removing", {"dns.deleteZone"}, {})))

DnsZones ==
  Part({"dns.status", "dns.zones"}, "nothing", "never", {}, {ZoneForm, RemoveZone})

RecordForm == Dialog("adding", {"dns.addRecord"}, {})

DnsRecords ==
  Forgetting(Keyed(Part({"dns.zone"}, "nothing", "never", {},
                        {RecordForm, Row({"dns.deleteRecord"}, {})})))

\* A task for every node that carries the role, where there is one.
Dispatched(f) == {f, Tasked(f)}

ClientForm == Dialog("addingClient", {"radius.addClient"}, {"radius_client"})
AccessForm == Dialog("addingPolicy", {"radius.addPolicy"}, {"radius_policy"})

NetworkAccessPage ==
  Part({"radius.overview"}, "vpn", "never", {},
       UNION {Dispatched(f) :
                f \in {ClientForm, AccessForm,
                       Swallowed(Row({"radius.removeClient"}, {"radius_client"})),
                       Swallowed(Row({"radius.removePolicy"}, {"radius_policy"}))}})

AccessPreview == Part({"radius.preview"}, "nothing", "never", {}, {})

-----------------------------------------------------------------------------

IssueForm          == Dialog("dialog", {"ca.issue"}, {"ca_certificate"})
ConsoleForm        == NotReread(Tasked(Dialog("dialog", {"ca.consoleCertificate"},
                                              {"ca_certificate"})))
\* The request is shown where it was asked for.
ConsoleRequestForm == NotReread(StaysOpen(Dialog("dialog", {"ca.consoleCertificateRequest"}, {})))
ConsoleUploadForm  == NotReread(Tasked(Dialog("dialog", {"ca.consoleCertificateUpload"}, {})))
SignForm           == Dialog("dialog", {"ca.sign"}, {"ca_certificate"})

CertificatesPage ==
  Part({"ca.status", "ca.certificates", "ca.rootUrl"}, "certificates", "never", {},
       {IssueForm, ConsoleForm, ConsoleRequestForm, ConsoleUploadForm, SignForm,
        Row({"ca.initialise"}, {"ca_certificate"}),
        Row({"ca.publish"}, {"gpo", "gpo_link"}),
        Row({"ca.revoke"}, {"ca_certificate"})})

TrustForm == Dialog("adding", {"ca.trust"}, {"trust_anchor"})

TrustedTab ==
  Part({"ca.trusted"}, "nothing", "never", {},
       {TrustForm, Swallowed(Row({"ca.untrust"}, {"trust_anchor"}))})

ProfileForm == Dialog("editing", {"ca.saveProfile"}, {"certificate_profile"})

ProfilesTab ==
  Part({"ca.profiles"}, "nothing", "never", {},
       {ProfileForm, Row({"ca.deleteProfile"}, {"certificate_profile"})})

-----------------------------------------------------------------------------

CollectionForm == Queued(Dialog("editing", {"rd.create", "rd.update"}, {"rd_collection"}))

\* The object picker closes before the host is added.
AddHost == Tasked(Row({"rd.addHost"}, {"rd_collection_host"}))

RemoteDesktopPage ==
  Part({"rd.list", "rd.sessions"}, "remoteDesktop", "never", {"rd_collection"},
       {CollectionForm, AddHost,
        Tasked(Row({"rd.drain"}, {"rd_collection_host"})),
        Tasked(Swallowed(Row({"rd.removeHost"}, {"rd_collection_host"})))})

\* A download: the browser asks for it.
ConnectionDialog == {"rd.connectionUrl"}

ProfileDiskForm == Tasked(Dialog("managing", {"rd.manageProfile"}, {}))

ProfileDisks ==
  Forgetting(Keyed(Part({"rd.profiles"} \cup ConnectionDialog, "nothing", "never", {},
                        {ProfileDiskForm})))

InstallForm == Queued(Dialog("installing", {"roles.install"}, {"server_role"}))

\* Offered in the dialog of the role, which stays.
RemoveRole ==
  [TaskFirst(Swallowed(Unguarded(StaysOpen(Dialog("open", {"roles.remove"}, {"server_role"})))))
     EXCEPT !.work = TRUE]

RolesPage ==
  Part({"roles.list"}, "roles", "working", {"server_role"}, {InstallForm, RemoveRole})

-----------------------------------------------------------------------------

\* What Passwords.run is given: the answer is the new status.  The buttons of
\* the page itself are disabled meanwhile; its dialogs are not, and set and
\* clear the same flag.
Vault(f) == Answering(f)

VaultForm(call) ==
  Unguarded(Vault(Dialog("collections", {call}, {"vault_collection", "password_manager"})))

PasswordsPage ==
  Part({"passwords.status"}, "nothing", "always", {"password_manager"},
       {Shared(Vault(Row({"passwords.setup", "passwords.seats"}, {"password_manager"}))),
        Shared(Row({"passwords.apply"}, {})),
        Shared(Vault(Row({"passwords.collections.grant", "passwords.collections.revoke"},
                         {"vault_collection_access"}))),
        VaultForm("passwords.collections.create"), VaultForm("passwords.collections.rename"),
        VaultForm("passwords.collections.grant"), VaultForm("passwords.collections.remove")})

=============================================================================
