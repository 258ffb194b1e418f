------------------------------ MODULE MCHubPanel ------------------------------
(* What the user of the panel presses, and what else happens, in one behaviour. *)
EXTENDS HubPanel

TheUses == {{"auto_update", "auto_update_hub"},
            {"plugin_prerelease", "hub_prerelease"},
            {"auto_update_plugin", "hub_prerelease", "beside"},
            {"auto_update_plugin", "check-now"},
            {"check-now", "release"},
            {"release", "withdrawn"},
            {"hub", "release"},
            {"hide", "release"},
            {"dot", "release"},
            {"interval", "apply"},
            {"paused", "boot_movie"},
            {"logs", "back"},
            {"logs", "warn"},
            {"slot", "plugin_prerelease"},
            {"run", "check-now"},
            {"auto_update_hub", "bundle"}}

RevertedUse == {{"auto_update_hub", "bundle"}}
===============================================================================
