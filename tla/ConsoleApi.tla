----------------------------- MODULE ConsoleApi -----------------------------
(***************************************************************************)
(* The client of the console (the api object of web/src/api.ts), by its    *)
(* sections: the calls that ask (GET) and those that are sent with another *)
(* method, for the control plane to change something.  Only the latter     *)
(* carry the token of the session against forged requests (request).       *)
(***************************************************************************)

DirectoryApi ==
  [asks |-> {"directory.groupQueries", "directory.tree", "directory.list",
             "directory.get", "directory.membership", "directory.secondFactor"},
   does |-> {"directory.bulk", "directory.saveGroupQuery",
             "directory.removeGroupQuery", "directory.createUser",
             "directory.bulkUsers", "directory.createGroup",
             "directory.setGroupKind", "directory.createComputer",
             "directory.createOu", "directory.update", "directory.move",
             "directory.setEnabled", "directory.offboard",
             "directory.setPassword", "directory.resetSecondFactor",
             "directory.setPhoto", "directory.editMembers", "directory.remove"}]

PolicyApi ==
  [asks |-> {"policy.list", "policy.revisions", "policy.get", "policy.export",
             "policy.links", "policy.effective", "policy.reports",
             "policy.sessionReports"},
   does |-> {"policy.model", "policy.rollback", "policy.import",
             "policy.create", "policy.update", "policy.remove", "policy.link",
             "policy.updateLink", "policy.unlink", "policy.setInheritance"}]

AdmxApi ==
  [asks |-> {"admx.templates", "admx.categories", "admx.policies"},
   does |-> {"admx.upload", "admx.removeTemplate"}]

PackagesApi ==
  [asks |-> {"packages.list"},
   does |-> {"packages.upload", "packages.remove"}]

DnsApi ==
  [asks |-> {"dns.status", "dns.zones", "dns.zone"},
   does |-> {"dns.createReverseZone", "dns.createZone", "dns.deleteZone",
             "dns.addRecord", "dns.updateRecord", "dns.deleteRecord"}]

DhcpApi ==
  [asks |-> {"dhcp.status", "dhcp.scopes", "dhcp.defaults", "dhcp.leases"},
   does |-> {"dhcp.createScope", "dhcp.updateScope", "dhcp.deleteScope",
             "dhcp.addReservation", "dhcp.deleteReservation"}]

RecyclebinApi ==
  [asks |-> {"recyclebin.list", "recyclebin.item"},
   does |-> {"recyclebin.restore", "recyclebin.purge"}]

RolesApi ==
  [asks |-> {"roles.list", "roles.instance"},
   does |-> {"roles.install", "roles.remove"}]

ControllersApi ==
  [asks |-> {"controllers.list", "controllers.joinCommand",
             "controllers.replication", "controllers.agents",
             "controllers.joinSettings"},
   does |-> {"controllers.setAgents", "controllers.setJoinSettings"}]

RadiusApi ==
  [asks |-> {"radius.overview", "radius.preview"},
   does |-> {"radius.addClient", "radius.removeClient", "radius.addPolicy",
             "radius.removePolicy"}]

Auth2faApi ==
  [asks |-> {"auth2fa.state", "auth2fa.pushState"},
   does |-> {"auth2fa.begin", "auth2fa.confirm", "auth2fa.remove",
             "auth2fa.pushBegin", "auth2fa.pushTest", "auth2fa.pushRemove"}]

SitesApi ==
  [asks |-> {"sites.list"},
   does |-> {"sites.create", "sites.remove", "sites.addSubnet",
             "sites.removeSubnet", "sites.assign"}]

RdApi ==
  [asks |-> {"rd.list", "rd.sessions", "rd.connectionUrl", "rd.profiles"},
   does |-> {"rd.create", "rd.update", "rd.remove", "rd.addHost",
             "rd.removeHost", "rd.drain", "rd.manageProfile"}]

PrintersApi ==
  [asks |-> {"printers.discover", "printers.devices", "printers.list",
             "printers.testResult"},
   does |-> {"printers.create", "printers.update", "printers.remove",
             "printers.test"}]

VpnApi ==
  [asks |-> {"vpn.list", "vpn.peers", "vpn.configurationUrl"},
   does |-> {"vpn.create", "vpn.update", "vpn.remove", "vpn.addPeer",
             "vpn.removePeer"}]

ServersApi ==
  [asks |-> {"servers.list", "servers.computer", "servers.localAdministrator",
             "servers.logs", "servers.browse", "servers.encryption",
             "servers.recoveryKey", "servers.assistSession"},
   does |-> {"servers.bulkAction", "servers.action", "servers.escrowKey",
             "servers.setPermissions", "servers.assist", "servers.message",
             "servers.shell", "servers.openTerminal"}]

PasswordsApi ==
  [asks |-> {"passwords.status"},
   does |-> {"passwords.setup", "passwords.seats", "passwords.apply",
             "passwords.collections.create", "passwords.collections.rename",
             "passwords.collections.remove", "passwords.collections.grant",
             "passwords.collections.revoke"}]

MonitorApi ==
  [asks |-> {"monitor.overview", "monitor.hosts", "monitor.series",
             "monitor.alerts", "monitor.groups", "monitor.probes",
             "monitor.channels", "monitor.rules", "monitor.maintenance",
             "monitor.dashboards", "monitor.dashboardData",
             "monitor.publicDashboard"},
   does |-> {"monitor.createGroup", "monitor.updateGroup",
             "monitor.deleteGroup", "monitor.createProbe",
             "monitor.updateProbe", "monitor.deleteProbe",
             "monitor.createChannel", "monitor.testChannel",
             "monitor.deleteChannel", "monitor.createRule",
             "monitor.updateRule", "monitor.deleteRule",
             "monitor.createMaintenance", "monitor.deleteMaintenance",
             "monitor.createDashboard", "monitor.updateDashboard",
             "monitor.shareDashboard", "monitor.deleteDashboard"}]

ActivityApi ==
  [asks |-> {"activity.list", "activity.kinds", "activity.summary",
             "activity.exportUrl"},
   does |-> {}]

SharesApi ==
  [asks |-> {"shares.list"},
   does |-> {"shares.create", "shares.update", "shares.remove"}]

RbacApi ==
  [asks |-> {"rbac.permissions", "rbac.roles", "rbac.assignments"},
   does |-> {"rbac.saveRole", "rbac.deleteRole", "rbac.assign",
             "rbac.unassign"}]

CaApi ==
  [asks |-> {"ca.status", "ca.profiles", "ca.certificates", "ca.trusted",
             "ca.rootUrl", "ca.root"},
   does |-> {"ca.initialise", "ca.saveProfile", "ca.deleteProfile",
             "ca.issue", "ca.revoke", "ca.publish", "ca.trust", "ca.untrust",
             "ca.consoleCertificate", "ca.consoleCertificateRequest",
             "ca.consoleCertificateUpload", "ca.sign"}]

OperationsApi ==
  [asks |-> {"operations.health", "operations.replication",
             "operations.backups", "operations.baseline",
             "operations.exportUrl"},
   does |-> {"operations.replicate", "operations.takeBackup",
             "operations.resetAllSecondFactors", "operations.importDomain"}]

JoinApi ==
  [asks |-> {"join.tokens"},
   does |-> {"join.createToken", "join.revokeToken"}]

AuditApi ==
  [asks |-> {"audit.list", "audit.actions"},
   does |-> {}]

Section == {DirectoryApi, PolicyApi, AdmxApi, PackagesApi, DnsApi, DhcpApi,
            RecyclebinApi, RolesApi, ControllersApi, RadiusApi, Auth2faApi,
            SitesApi, RdApi, PrintersApi, VpnApi, ServersApi, PasswordsApi,
            MonitorApi, ActivityApi, SharesApi, RbacApi, CaApi, OperationsApi,
            JoinApi, AuditApi}

Asks == UNION {s.asks : s \in Section}
Does == UNION {s.does : s \in Section}

\* Sent with another method, but changing nothing.
Harmless == {"policy.model", "monitor.testChannel"}

\* Calls of the client that no page makes.
Unused == {"policy.links", "packages.remove", "dns.updateRecord", "recyclebin.item",
           "roles.instance", "controllers.replication", "rd.remove", "vpn.update",
           "vpn.remove", "servers.bulkAction", "servers.shell", "monitor.series",
           "activity.kinds"}

=============================================================================
