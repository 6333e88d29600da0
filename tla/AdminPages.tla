----------------------------- MODULE AdminPages -----------------------------
(***************************************************************************)
(* The pages of the console that administer the domain itself: its         *)
(* controllers and sites, who may do what, the directory and its objects,  *)
(* policies, the recycle bin, enrolment, operations, and monitoring.       *)
(***************************************************************************)
EXTENDS PageForms

ControllersPage == Part({"controllers.list"}, "servers", "never", {}, {})

\* Two settings that are read once; saving one shows what the control plane
\* answers.
AgentSchedule ==
  Part({"controllers.agents"}, "nothing", "never", {},
       {Guarded(Answering(Row({"controllers.setAgents"}, {"agent_schedule"})))})

NewComputers ==
  Part({"controllers.joinSettings"}, "nothing", "never", {},
       {Guarded(Answering(Row({"controllers.setJoinSettings"}, {"join_settings"})))})

\* The command is shown in the dialog that asked for it.
JoinCommand == {"controllers.joinCommand"}

SiteForm == Dialog("adding", {"sites.create"}, {"ad_site"})
SubnetForm == Dialog("subnetFor", {"sites.addSubnet"}, {"ad_subnet"})

\* Closed once its answer is in, whatever that was.
AssignSite ==
  Swallowed(Unguarded(Dialog("assignFor", {"sites.assign"},
                             {"ad_site_controller", "computer_fact"})))

SitesTab ==
  Part({"sites.list"} \cup JoinCommand, "nothing", "never", {},
       {SiteForm, SubnetForm, AssignSite,
        Swallowed(Row({"sites.remove"}, {"ad_site", "computer_fact"})),
        Swallowed(Row({"sites.removeSubnet"}, {"ad_subnet"}))})

-----------------------------------------------------------------------------

AssignForm == Dialog("assigning", {"rbac.assign"}, {"rbac_assignment"})
RoleForm   == Dialog("editing", {"rbac.saveRole"}, {"rbac_role"})

DelegationPage ==
  Part({"rbac.roles", "rbac.assignments", "rbac.permissions"}, "delegation", "never", {},
       {AssignForm, RoleForm, Row({"rbac.unassign"}, {"rbac_assignment"}),
        Row({"rbac.deleteRole"}, {"rbac_role", "rbac_assignment"})})

\* RecycleBin.act: nothing is disabled, and a refusal leaves the dialog.
RecycleBinPage ==
  Part({"recyclebin.list"}, "recycleBin", "never", {},
       {Unguarded(Dialog("confirming", {"recyclebin.restore", "recyclebin.purge"},
                         {"deleted_object"}))})

\* A dialog that reads for itself; the token it made is shown in it.
EnrolmentTokens ==
  Part({"join.tokens"}, "nothing", "never", {},
       {Guarded(Row({"join.createToken"}, {"join_token"})),
        Swallowed(Row({"join.revokeToken"}, {"join_token"}))})

TemplateManager ==
  Part({"admx.templates"}, "nothing", "never", {},
       {Guarded(Row({"admx.upload"}, {"admx_template", "admx_policy"})),
        Row({"admx.removeTemplate"}, {"admx_template"})})

\* Read again for every change of what is asked, 200 ms after it.
AuditPage == Keyed(Part({"audit.list", "audit.actions"}, "nothing", "never", {}, {}))

ActivityList ==
  Keyed(Part({"activity.list", "activity.summary", "activity.exportUrl"}, "nothing", "never",
             {}, {}))

\* Overview's tabs are read by one function.  The list of backups is not
\* read again by the button that starts one, but followed while one runs.
OverviewPage ==
  Part({"operations.health", "operations.replication", "operations.backups"}, "overview",
       "working", {"domain_backup", "audit_log"},
       {Row({"operations.replicate"}, {}),
        NotReread(Queued(Row({"operations.takeBackup"}, {"domain_backup"})))})

BaselineTab == Part({"operations.baseline"}, "nothing", "never", {}, {})

SecondFactorReset == NotReread(Guarded(Row({"operations.resetAllSecondFactors"},
                                           {"totp_enrolment", "push_enrolment"})))

\* A document is summarised first, by the same call, which then changes
\* nothing; its button, the choice of a file, is never disabled, and clears
\* the flag of the import.
ConfigurationTab ==
  Part({"operations.exportUrl"}, "nothing", "never", {},
       {NotReread(Shared(Row({"operations.importDomain"}, {"gpo", "gpo_link", "rbac_role"}))),
        SecondFactorReset})

-----------------------------------------------------------------------------

CreateGpo == Dialog("creating", {"policy.create"}, {"gpo"})

ImportGpos == Telling(Dialog("importing", {"policy.import"}, {"gpo", "gpo_link"}))

PolicyPage ==
  Part({"policy.list", "policy.export", "policy.get"}, "policy", "never", {},
       {CreateGpo, ImportGpos,
        Swallowed(Row({"policy.remove"}, {"deleted_object", "gpo"}))})

\* The links of one policy object are its own part of the page: run.
LinksEditor ==
  Part({"policy.get"}, "nothing", "never", {},
       {Row({"policy.link", "policy.updateLink", "policy.unlink"}, {"gpo_link"})})

HistoryTab ==
  Part({"policy.revisions"}, "nothing", "never", {},
       {Dismissed(Unguarded(Dialog("going", {"policy.rollback"}, {"gpo", "gpo_revision"})))})

-----------------------------------------------------------------------------
\* The directory itself is no table: only the audit log tells of it.

CreateForm(slot) ==
  Dialog(slot, {"directory.createUser", "directory.createGroup",
                "directory.createComputer", "directory.createOu"}, {})

BulkImport == StaysOpen(Dialog("importing", {"directory.bulkUsers"}, {}))
BulkForm   == Dialog("bulk", {"directory.bulk"}, {})
RenameForm == Dialog("renaming", {"directory.move"}, {})
LinkPolicy == NotReread(Dialog("linking", {"policy.link"}, {"gpo_link"}))
Message    == NotReread(Tasked(Dialog("messaging", {"servers.message"}, {})))

PasswordForm(slot) == NotReread(Dialog(slot, {"directory.setPassword"}, {}))
ResetFactor(slot)  == NotReread(Dialog(slot, {"directory.resetSecondFactor"},
                                       {"totp_enrolment", "push_enrolment"}))

\* An object dropped on a container of the tree.
MoveTo == Row({"directory.move"}, {})

DirectoryPage ==
  Forgetting(Keyed(
    Part({"directory.tree", "directory.list", "policy.list"}, "directory", "never", {},
         {CreateForm("creating"), BulkImport, BulkForm, RenameForm, LinkPolicy, Message,
          MoveTo, PasswordForm("resettingPassword"), ResetFactor("resettingFactor")})))

PhotoForm     == Dialog("dialog", {"directory.setPhoto"}, {})
MoveForm      == Dialog("dialog", {"directory.move"}, {})
MembersForm   == Dialog("dialog", {"directory.editMembers"}, {})
DeleteForm    == NotReread(Dialog("dialog", {"directory.remove"}, {"deleted_object"}))
OffboardForm  == Telling(Dialog("dialog", {"directory.offboard"}, {}))

\* The general form, the switches of the page (ObjectDetail.run) and its
\* dialogs.  Nothing is told to it.
ObjectPage ==
  Part({"directory.get", "directory.membership", "directory.secondFactor"}, "nothing", "never", {},
       {PhotoForm, MoveForm, MembersForm, DeleteForm, OffboardForm,
        PasswordForm("dialog"), ResetFactor("dialog"),
        Guarded(Row({"directory.update", "directory.setEnabled", "directory.setGroupKind"}, {})),
        Guarded(Row({"policy.setInheritance"}, {"ou_policy_state"}))})

\* The group's query: read when the dialog opens.
DynamicMembership ==
  Part({"directory.groupQueries"}, "nothing", "never", {},
       {Dialog("querying", {"directory.saveGroupQuery"}, {"group_query"}),
        Swallowed(Unguarded(Dialog("querying", {"directory.removeGroupQuery"},
                                   {"group_query"})))})

-----------------------------------------------------------------------------
\* What is shown of a computer.

\* ComputerTabs.ask, from the buttons of the tabs and from dialogs that close
\* before they ask: the machine is given a task, and what it then finds comes
\* with its next inventory.  The buttons are disabled meanwhile; installing a
\* package is not.
MachineTask == Shared(Queued(Row({"servers.action"}, {})))

ComputerTabs ==
  Part({"servers.computer"}, "servers", "never", {"computer_fact"}, {MachineTask, Message})

\* A password is shown once more where it was asked for.
LocalAdministrator == Part({"servers.localAdministrator"}, "nothing", "never", {}, {})

AssistForm == NotReread(StaysOpen(Tasked(Dialog("assisting", {"servers.assist"}, {}))))

LogsTab == Part({"servers.logs"}, "nothing", "never", {}, {AssistForm})

\* The answer to new permissions is the listing.
FilesTab ==
  Careful(Part({"servers.browse"}, "nothing", "never", {},
               {Answering(Tasked(Dialog("editing", {"servers.setPermissions"}, {})))}))

EscrowForm == Tasked(Dialog("escrowing", {"servers.escrowKey"},
                            {"disk_recovery_key", "computer_fact"}))

EncryptionPanel ==
  Part({"servers.encryption", "servers.recoveryKey"}, "directory", "never", {}, {EscrowForm})

RsopDialog ==
  Part({"policy.effective", "policy.reports", "policy.sessionReports", "policy.list"}
         \cup {"policy.model"}, "nothing", "never", {}, {})

-----------------------------------------------------------------------------

\* The configuration of a role on the pages of what it serves: an install
\* with other arguments.
RoleConfiguration ==
  Part({"roles.list"}, "nothing", "never", {"server_role"},
       {Guarded(Queued(Row({"roles.install"}, {"server_role"})))})

\* One's own second factors.
SecondFactor ==
  Part({"auth2fa.state"}, "nothing", "never", {},
       {Guarded(NotReread(Row({"auth2fa.begin"}, {"totp_enrolment"}))),
        Guarded(Row({"auth2fa.confirm", "auth2fa.remove"}, {"totp_enrolment"}))})

\* The phone's answer is what pushBegin waits for.
PhoneApproval ==
  Part({"auth2fa.pushState"}, "nothing", "working", {"push_enrolment", "audit_log"},
       {[Guarded(Row({"auth2fa.pushBegin"}, {"push_enrolment"})) EXCEPT !.work = TRUE],
        Guarded(Row({"auth2fa.pushRemove"}, {"push_enrolment"})),
        Guarded(Row({"auth2fa.pushTest"}, {}))})

-----------------------------------------------------------------------------
\* Monitoring.  A tab's own dialogs are disabled while a save is out (busy,
\* kept by the tab); deleting asks the browser and disables nothing.

Save(slot, calls, table) == OfThePage(Dialog(slot, calls, {table}))

MonitorPage == Part({"monitor.overview"}, "roles", "never", {}, {})

\* The designer of a dashboard keeps a flag of its own.
DashboardsTab ==
  Keyed(Part({"monitor.dashboards", "monitor.dashboardData", "monitor.channels", "monitor.groups"},
             "nothing", "always", {},
             {Save("adding", {"monitor.createDashboard"}, "monitor_dashboard"),
              Dialog("editing", {"monitor.updateDashboard"}, {"monitor_dashboard"}),
              Row({"monitor.shareDashboard", "monitor.updateDashboard",
                   "monitor.deleteDashboard"}, {"monitor_dashboard"})}))

HostsTab ==
  Part({"monitor.hosts", "monitor.groups"}, "nothing", "always", {},
       {Save("editing", {"monitor.createGroup", "monitor.updateGroup"}, "monitor_group"),
        Row({"monitor.deleteGroup"}, {"monitor_group"})})

AlertsTab == Part({"monitor.alerts"}, "nothing", "always", {}, {})

\* bulk: each ticked rule is saved with a call of its own.  The ticks stay,
\* and the list is not read again, when one of them is refused.
BulkRules == Guarded(Row({"monitor.updateRule", "monitor.deleteRule"}, {"monitor_rule"}))

RulesTab ==
  Part({"monitor.rules", "monitor.groups", "monitor.channels", "monitor.hosts"},
       "nothing", "never", {},
       {Save("editing", {"monitor.createRule", "monitor.updateRule"}, "monitor_rule"),
        Row({"monitor.deleteRule"}, {"monitor_rule"}), BulkRules})

ChannelsTab ==
  Part({"monitor.channels", "monitor.testChannel"}, "nothing", "never", {},
       {Save("adding", {"monitor.createChannel"}, "monitor_channel"),
        Row({"monitor.deleteChannel"}, {"monitor_channel"})})

MaintenanceTab ==
  Part({"monitor.maintenance", "monitor.groups", "monitor.hosts"}, "nothing", "never", {},
       {Save("adding", {"monitor.createMaintenance"}, "monitor_maintenance"),
        Row({"monitor.deleteMaintenance"}, {"monitor_maintenance"})})

ProbesTab ==
  Part({"monitor.probes", "monitor.overview", "monitor.hosts"}, "nothing", "never", {},
       {Save("editing", {"monitor.createProbe", "monitor.updateProbe"}, "monitor_probe"),
        Row({"monitor.deleteProbe"}, {"monitor_probe"})})

\* The shared dashboard, on a screen nobody signs in to.
MonitorView == Part({"monitor.publicDashboard"}, "nothing", "always", {}, {})

=============================================================================
