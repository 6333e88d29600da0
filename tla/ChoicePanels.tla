---------------------------- MODULE ChoicePanels ----------------------------
(***************************************************************************)
(* What the pages of the console are made with: the sidebar around them,   *)
(* and the panels in their dialogs that offer something to choose.  Most   *)
(* of them read again for every key the administrator gives them: a text   *)
(* that is searched for, a server, a folder.                               *)
(***************************************************************************)
EXTENDS PageForms

\* The sections whose roles came up.  A failed read hides them all.
Sidebar == Forgetting(Part({"roles.list"}, "roles", "always", {"server_role"}, {}))

Choice(asks) == Part(asks, "nothing", "never", {}, {})

\* Searches, 200 or 250 ms after the last key; a failed one empties the list.
ObjectSearch     == Forgetting(Keyed(Choice({"directory.list"})))
AssigneeSearch   == Forgetting(Keyed(Choice({"directory.list"})))
TemplateSearch   == Keyed(Choice({"admx.policies"}))
\* One list for every template that is configured, by how many there are.
TemplateNames    == Keyed(Choice({"admx.policies"}))

Containers       == Choice({"directory.tree"})
AssigneeScopes   == Forgetting(Choice({"directory.tree"}))
TemplateGroups   == Forgetting(Choice({"admx.categories"}))
PrinterChoice    == Forgetting(Choice({"printers.list"}))
ShareChoice      == Forgetting(Choice({"shares.list"}))
CollectionChoice == Forgetting(Choice({"rd.list"}))
ServerChoice     == Forgetting(Choice({"servers.list"}))
PackageChoice    == Choice({"packages.list"})
ScopeDefaults    == Choice({"dhcp.defaults"})

\* The printers a server sees: as it reported them, and as it scans for them.
DeviceChoice     == Forgetting(Keyed(Choice({"printers.devices", "printers.discover"})))
\* A folder of a server.  The answer says which one it is of.
FolderChoice     == Keyed(Choice({"servers.browse"}))

\* These look at whether the answer is still the one they wait for (live,
\* current).
LocalAccounts       == Careful(Choice({"servers.computer"}))
MembershipTable     == Careful(Choice({"directory.membership"}))
CertificateProfiles == Forgetting(Careful(Choice({"ca.profiles"})))

=============================================================================
