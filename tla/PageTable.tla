----------------------------- MODULE PageTable -----------------------------
(***************************************************************************)
(* The pages of the console.  What reads by itself is a part of its own    *)
(* (PageForms); the console shows them by the routes of App.tsx and by     *)
(* their tabs and dialogs.                                                 *)
(***************************************************************************)
EXTENDS ServicePages, AdminPages, ChoicePanels, TLC

Page ==
  "shares" :> SharesPage @@ "printers" :> PrintersPage @@ "test page" :> TestPage
  @@ "vpn" :> VpnPage
  @@ "vpn peers" :> VpnPeers @@ "dhcp" :> DhcpPage @@ "dhcp leases" :> DhcpLeases
  @@ "dns" :> DnsZones @@ "dns records" :> DnsRecords
  @@ "network access" :> NetworkAccessPage @@ "access preview" :> AccessPreview
  @@ "certificates" :> CertificatesPage @@ "trusted" :> TrustedTab @@ "profiles" :> ProfilesTab
  @@ "remote desktop" :> RemoteDesktopPage @@ "profile disks" :> ProfileDisks
  @@ "roles" :> RolesPage @@ "role configuration" :> RoleConfiguration
  @@ "passwords" :> PasswordsPage
  @@ "controllers" :> ControllersPage @@ "agents" :> AgentSchedule
  @@ "new computers" :> NewComputers @@ "sites" :> SitesTab
  @@ "delegation" :> DelegationPage @@ "recycle bin" :> RecycleBinPage
  @@ "tokens" :> EnrolmentTokens @@ "templates" :> TemplateManager
  @@ "audit" :> AuditPage @@ "activity" :> ActivityList
  @@ "overview" :> OverviewPage @@ "baseline" :> BaselineTab
  @@ "configuration" :> ConfigurationTab
  @@ "policy" :> PolicyPage @@ "links" :> LinksEditor @@ "history" :> HistoryTab
  @@ "directory" :> DirectoryPage @@ "object" :> ObjectPage
  @@ "dynamic membership" :> DynamicMembership @@ "rsop" :> RsopDialog
  @@ "computer" :> ComputerTabs @@ "local administrator" :> LocalAdministrator
  @@ "logs" :> LogsTab @@ "files" :> FilesTab @@ "encryption" :> EncryptionPanel
  @@ "second factor" :> SecondFactor @@ "phone" :> PhoneApproval
  @@ "monitor" :> MonitorPage @@ "dashboards" :> DashboardsTab @@ "hosts" :> HostsTab
  @@ "alerts" :> AlertsTab @@ "rules" :> RulesTab @@ "channels" :> ChannelsTab
  @@ "maintenance" :> MaintenanceTab @@ "probes" :> ProbesTab @@ "view" :> MonitorView
  @@ "sidebar" :> Sidebar @@ "object search" :> ObjectSearch
  @@ "assignee search" :> AssigneeSearch @@ "template search" :> TemplateSearch
  @@ "template names" :> TemplateNames @@ "containers" :> Containers
  @@ "assignee scopes" :> AssigneeScopes @@ "template groups" :> TemplateGroups
  @@ "printer choice" :> PrinterChoice @@ "share choice" :> ShareChoice
  @@ "collection choice" :> CollectionChoice @@ "server choice" :> ServerChoice
  @@ "package choice" :> PackageChoice @@ "scope defaults" :> ScopeDefaults
  @@ "devices" :> DeviceChoice @@ "folder choice" :> FolderChoice
  @@ "local accounts" :> LocalAccounts @@ "membership" :> MembershipTable
  @@ "certificate profiles" :> CertificateProfiles

\* Calls of the terminal, of the shared screen and of the policy editor,
\* which are not parts of this kind.
OtherCalls == {"servers.openTerminal", "servers.assistSession", "packages.upload",
               "policy.update", "ca.root"}

\* A page makes calls the client has, and every call is made by some page.
ASSUME CallAssumption ==
  /\ UNION {Page[n].asks : n \in DOMAIN Page} \subseteq Asks \cup Harmless
  /\ UNION {UNION {f.calls : f \in Page[n].forms} : n \in DOMAIN Page} \subseteq Does
  /\ \A c \in (Asks \cup Does) \ (Unused \cup OtherCalls) :
       \E n \in DOMAIN Page : c \in Page[n].asks \cup UNION {f.calls : f \in Page[n].forms}

=============================================================================
