--------------------------- MODULE SettingsTable ---------------------------
(***************************************************************************)
(* The settings of a policy object as the console edits them: one entry of *)
(* the tree of web/src/components/SettingsEditor.tsx each, a list of       *)
(* entries (its CATEGORIES) or one object (its SPECIAL).  An editor        *)
(* replaces its own part of the draft and leaves the rest as it has it.    *)
(***************************************************************************)
EXTENDS FiniteSets, TLC

\* A setting that is one object: Add writes every field but those a picture
\* brings, a control writes its own, Remove takes the object out.
One(stored, half, fields) ==
  [stored |-> stored, half |-> half, holds |-> "one", key |-> {}, fields |-> fields,
   file |-> "none", where |-> "draft"]

\* A list of entries, each added and changed in a dialog of its own; key is
\* what the control plane tells two entries apart by (LIST_KEYS of
\* api/odm/policy.py).
Rows(stored, half, key, fields) ==
  [One(stored, half, fields) EXCEPT !.holds = "rows", !.key = key]

\* It takes a file, which FileInput awaits and counts while it is read.
Awaited(s)   == [s EXCEPT !.file = "awaited"]
\* Its file is read by a promise nobody awaits.
Unawaited(s) == [s EXCEPT !.file = "unawaited"]
\* The file is for the entry in the dialog, and in the draft with it.
InDialog(s)  == [s EXCEPT !.where = "dialog"]

-----------------------------------------------------------------------------
\* CATEGORIES.

Files == Rows("files", "Computer", {"path"}, {"path", "content", "mode", "owner", "group"})
StartupScripts ==
  Rows("scripts", "Computer", {"trigger", "name"}, {"trigger", "name", "interpreter",
    "content"})
LogonScripts ==
  Rows("scripts", "User", {"trigger", "name"}, {"trigger", "name", "interpreter",
    "content"})
SystemdUnits == Rows("systemd_units", "Computer", {"unit"}, {"unit", "state"})
Cron == Rows("cron", "Computer", {"name"}, {"name", "schedule", "command", "user"})
DriveMaps ==
  Rows("drive_maps", "User", {"mount_point"}, {"name", "unc", "mount_point",
    "display_name", "for_principal", "options"})
SudoRules ==
  Rows("sudo_rules", "Computer", {"name"}, {"name", "users", "commands", "run_as",
    "nopasswd"})
HbacRules ==
  Rows("hbac_rules", "Computer", {"principal", "service"}, {"principal", "service",
    "access"})
Packages == Rows("packages", "Computer", {"name"}, {"name", "state"})
TrustedCertificates ==
  InDialog(Unawaited(Rows("trusted_certificates", "Computer", {"name"}, {"name",
    "certificate_pem"})))
CertificateEnrolment ==
  Rows("certificate_enrolment", "Computer", {"profile", "path"}, {"profile", "path",
    "validity_days", "renew_before_days"})
WifiNetworks ==
  Rows("wifi_networks", "Computer", {"ssid"}, {"ssid", "security", "psk", "server_name",
    "certificate_path", "hidden", "autoconnect", "priority"})
LogonHours ==
  Rows("logon_hours", "Computer", {"principal", "start", "end"}, {"principal", "days",
    "start", "end", "sign_out", "message"})
WebApps ==
  InDialog(Awaited(Rows("web_apps", "Computer", {"name"}, {"name", "url", "icon_url",
    "browser", "categories", "comment"})))
RemoteDesktopFiles ==
  Rows("remote_desktop_files", "User", {"name", "for_principal"}, {"name", "address",
    "application", "for_principal", "full_screen"})
DefaultApplications ==
  Rows("default_applications", "Computer", {"mime_type"}, {"mime_type", "application",
    "extensions"})
Dash ==
  Rows("dash", "User", {"name", "for_principal"}, {"name", "applications",
    "for_principal", "allow_user_change"})
Sysctl == Rows("sysctl", "Computer", {"key"}, {"key", "value"})
Shortcuts ==
  Rows("shortcuts", "User", {"name", "for_principal"}, {"name", "kind", "target", "icon",
    "where", "for_principal"})
Printers ==
  Rows("printers", "User", {"name", "for_principal"}, {"name", "server", "for_principal",
    "default"})
Firewall ==
  Rows("firewall", "Computer", {"name"}, {"name", "action", "direction", "protocol",
    "port", "source"})

-----------------------------------------------------------------------------
\* SPECIAL.

BrowserFields ==
  {"start_page", "homepage", "homepage_locked", "bookmarks_folder", "bookmarks",
    "bookmarks_bar", "extensions_install", "extensions_block", "extensions_user_install",
    "password_manager", "autofill", "history", "private_browsing", "developer_tools",
    "telemetry", "sync_accounts", "popups", "default_search", "default_search_url",
    "download_directory", "proxy_mode", "proxy_server", "proxy_pac_url", "proxy_bypass",
    "blocked_sites", "allowed_sites", "first_run_pages", "default_browser_check", "extra"}
Updates ==
  One("updates", "Computer", {"enabled", "security_only", "schedule", "auto_reboot",
    "reboot_time", "remove_unused"})
LoginScreen ==
  Awaited(One("login_screen", "Computer", {"banner_text", "background_uri",
    "background_image", "background_image_name", "background_fit",
    "allow_user_background", "disable_user_list"}))
AlwaysOnVpn == One("always_on_vpn", "Computer", {"tunnel", "block_until_connected"})
LocalAdministratorSetting ==
  One("local_administrator", "Computer", {"account", "rotate_days", "length",
    "administrator"})
GraphicsDrivers == One("graphics_drivers", "Computer", {"mode"})
DomainAuthority ==
  One("certificates", "Computer", {"trust_domain_authority", "browsers",
    "machine_certificate", "machine_certificate_path"})
Grub ==
  Awaited(One("grub", "Computer", {"timeout_seconds", "hide_menu", "boot_splash",
    "silent", "splash_message", "splash_image", "splash_image_name", "splash_background",
    "splash_background_name"}))
RemoteDesktopSession ==
  One("remote_desktop_session", "Computer", {"allow_clipboard", "allow_printers",
    "allow_drives", "allow_audio", "allow_microphone", "max_colour_depth"})
AgentUpdate == One("agent_update", "Computer", {"mode", "version"})
LocalPasswordPolicy ==
  One("local_password_policy", "Computer", {"minimum_length", "require_uppercase",
    "require_lowercase", "require_digit", "require_symbol", "maximum_age_days",
    "minimum_age_days", "warn_days", "accounts"})
Wallpaper ==
  Awaited(One("wallpaper", "User", {"uri", "image", "image_name", "picture_options",
    "allow_user_change"}))
RoamingProfile == One("roaming_profile", "User", {"path", "kind", "disk_gb"})
Power ==
  One("power", "Computer", {"screen_off_ac_minutes", "screen_off_battery_minutes",
    "suspend_ac_minutes", "suspend_battery_minutes", "login_screen_screen_off_minutes",
    "login_screen_suspend_minutes", "lid_close_action", "lid_close_action_external_power",
    "lid_close_action_docked", "power_button_action", "suspend_key_action",
    "hibernate_key_action", "idle_action", "idle_action_minutes", "allow_suspend",
    "allow_hibernate", "critical_battery_action", "critical_battery_percent",
    "dim_screen", "idle_brightness_percent", "power_saver_on_low_battery",
    "allow_user_change"})
RegionalSettings ==
  One("regional", "Computer", {"locale", "formats_locale", "additional_locales",
    "keyboard_layout", "keyboard_variant", "timezone", "allow_user_change"})
FirefoxPolicy == One("firefox_policy", "Computer", BrowserFields)
ChromiumPolicy == One("chromium_policy", "Computer", BrowserFields)
ComputerNames == One("computer_names", "Computer", {"template"})
DeviceControl ==
  One("device_control", "Computer", {"bluetooth", "camera", "microphone", "allowed_usb"})
PasswordManagerSetting ==
  One("password_manager", "Computer", {"vault_url", "browser_extension", "firefox",
    "chromium", "desktop_app", "disable_browser_managers"})
FirmwareUpdates ==
  One("firmware_updates", "Computer", {"enabled", "mode", "include_testing",
    "reboot_when_needed"})
ScreenLock ==
  One("screen_lock", "Computer", {"idle_minutes", "lock_delay_seconds", "lock_enabled",
    "lock_on_suspend", "show_notifications", "allow_user_change"})
RemovableStorage ==
  One("removable_storage", "Computer", {"mode", "exempt_principals", "message"})
DesktopTheme ==
  One("desktop_theme", "Computer", {"gtk_theme", "icon_theme", "cursor_theme",
    "interface_font", "document_font", "monospace_font", "colour_scheme",
    "allow_user_change"})
SecondFactorSetting ==
  One("second_factor", "Computer", {"enabled", "method", "push_server_url", "self_enrol",
    "services", "require_principals", "exempt_principals", "grace_days"})
SoftwareControl ==
  One("software_control", "Computer", {"enabled", "allowed", "block_flatpak",
    "block_snap", "message"})
FirstRun ==
  One("first_run", "Computer", {"disable_tour", "disable_welcome_dialog", "message"})

\* Lists with editors of their own: a font or a package is added as it is
\* picked, an administrative template as it is chosen.
Fonts == Unawaited(Rows("fonts", "Computer", {"name"}, {"name", "content"}))
CustomPackages ==
  Unawaited(Rows("custom_packages", "Computer", {"name"}, {"name", "package_id", "state"}))
Templates == Rows("admx", "Computer", {"policy_id"}, {"policy_id", "state", "values"})

\* Only offered to a policy object that has one already.
LegacyBrowser == One("browser", "Computer", {"chromium", "firefox"})

Setting ==
  "files" :> Files @@ "scripts-computer" :> StartupScripts @@ "scripts-user" :> LogonScripts
  @@ "systemd_units" :> SystemdUnits @@ "cron" :> Cron @@ "drive_maps" :> DriveMaps
  @@ "sudo_rules" :> SudoRules @@ "hbac_rules" :> HbacRules @@ "packages" :> Packages
  @@ "trusted_certificates" :> TrustedCertificates
  @@ "certificate_enrolment" :> CertificateEnrolment @@ "wifi_networks" :> WifiNetworks
  @@ "logon_hours" :> LogonHours @@ "web_apps" :> WebApps
  @@ "remote_desktop_files" :> RemoteDesktopFiles
  @@ "default_applications" :> DefaultApplications @@ "dash" :> Dash @@ "sysctl" :> Sysctl
  @@ "shortcuts" :> Shortcuts @@ "printers" :> Printers @@ "firewall" :> Firewall
  @@ "updates" :> Updates @@ "login_screen" :> LoginScreen @@ "always_on_vpn" :> AlwaysOnVpn
  @@ "local_administrator" :> LocalAdministratorSetting
  @@ "graphics_drivers" :> GraphicsDrivers @@ "certificates" :> DomainAuthority @@ "grub" :> Grub
  @@ "remote_desktop_session" :> RemoteDesktopSession @@ "agent_update" :> AgentUpdate
  @@ "local_password_policy" :> LocalPasswordPolicy @@ "wallpaper" :> Wallpaper
  @@ "roaming_profile" :> RoamingProfile @@ "power" :> Power @@ "regional" :> RegionalSettings
  @@ "firefox_policy" :> FirefoxPolicy @@ "chromium_policy" :> ChromiumPolicy
  @@ "computer_names" :> ComputerNames @@ "device_control" :> DeviceControl
  @@ "password_manager" :> PasswordManagerSetting @@ "firmware_updates" :> FirmwareUpdates
  @@ "screen_lock" :> ScreenLock @@ "removable_storage" :> RemovableStorage
  @@ "desktop_theme" :> DesktopTheme @@ "second_factor" :> SecondFactorSetting
  @@ "software_control" :> SoftwareControl @@ "first_run" :> FirstRun @@ "fonts" :> Fonts
  @@ "custom_packages" :> CustomPackages @@ "admx" :> Templates @@ "browser" :> LegacyBrowser

-----------------------------------------------------------------------------

\* LIST_KEYS and DICT_CATEGORIES of api/odm/policy.py: what merge_settings
\* merges entry by entry and field by field; of anything else the policy
\* that wins is taken whole.
MergedByField ==
  {"browser", "firefox_policy", "chromium_policy", "wallpaper", "agent", "updates",
   "login_screen", "roaming_profile", "always_on_vpn", "local_password_policy", "power",
   "screen_lock", "removable_storage", "device_control", "computer_names",
   "password_manager", "desktop_theme", "second_factor", "first_run", "software_control",
   "regional", "firmware_updates"}

TakenWhole == {"local_administrator", "graphics_drivers", "certificates", "grub",
               "remote_desktop_session", "agent_update"}

Held(how) == {s \in DOMAIN Setting : Setting[s].holds = how}

Stored(S) == {Setting[s].stored : s \in S}

\* What tells two entries apart can be filled in, in their own dialog.
ASSUME KeyAssumption == \A s \in Held("rows") : Setting[s].key # {} /\ Setting[s].key \subseteq Setting[s].fields

\* The console and the control plane know the same objects; the agent's own
\* interval is kept in old policy objects, and edited elsewhere.
ASSUME MergeAssumption ==
  /\ Stored(Held("one")) = (MergedByField \ {"agent"}) \cup TakenWhole
  /\ MergedByField \cap TakenWhole = {} /\ Stored(Held("one")) \cap Stored(Held("rows")) = {}

\* Two entries of the tree edit one list, each the half of it that is its own.
ASSUME SplitAssumption ==
  \A s, t \in DOMAIN Setting :
    s # t /\ Setting[s].stored = Setting[t].stored => Setting[s].half # Setting[t].half

=============================================================================
