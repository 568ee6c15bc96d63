---------------------------- MODULE PkgdbScripts ----------------------------
(***************************************************************************)
(* The scripts of the local database: pkgdb_init (src/libpkg/pkgdb.c) and  *)
(* db_upgrades (src/libpkg/private/db_upgrades.h), and the statements      *)
(* prepared by every pkgdb_open.  Column types and constraints other than  *)
(* references and unique indexes are left out.                             *)
(***************************************************************************)
EXTENDS SqlSchema

DBVERSION == 27
DB_SCHEMA_MAJOR == 0

\* The columns every packages table has had, and those of a table (id, name).
Basic == {"id", "origin", "name", "version", "comment", "desc", "mtree_id",
          "message", "arch", "maintainer", "www", "prefix", "flatsize",
          "automatic", "pkg_format_version"}
Packages(cols) == Table("packages", Basic \cup cols, {"mtree"})
Named(t) == Table(t, {"id", "name"}, {})
Assoc(t, c, u) == Table(t, {"package_id", c}, {"packages", u})
PackageIndex(i, t) == Index(i, t, {"package_id"})

\* Rename the table, create it anew, copy the columns, drop the old one.
Rebuild(new, old, cols, indexes) ==
    <<Rename(new.name, old), new>> \o indexes \o
    <<Copy(new.name, Same(cols), {old}), DropTable(old)>>

ShlibsView ==
    <<View("pkg_shlibs"), Trigger("pkg_shlibs_update", "pkg_shlibs"),
      Trigger("pkg_shlibs_insert", "pkg_shlibs"),
      Trigger("pkg_shlibs_delete", "pkg_shlibs")>>
ScriptsView ==
    <<View("scripts"), Trigger("scripts_update", "scripts"),
      Trigger("scripts_insert", "scripts"), Trigger("scripts_delete", "scripts")>>
OptionsView ==
    <<View("options"), Trigger("options_update", "options"),
      Trigger("options_insert", "options"), Trigger("options_delete", "options")>>

ScriptTables ==
    <<Table("pkg_script", {"package_id", "type", "script_id"}, {"packages", "script"}),
      Table("script", {"script_id", "script"}, {})>>
OptionTables ==
    <<Table("option", {"option_id", "option"}, {}),
      Table("option_desc", {"option_desc_id", "option_desc"}, {}),
      Table("pkg_option", {"package_id", "option_id", "value"}, {"packages", "option"}),
      Table("pkg_option_desc", {"package_id", "option_id", "option_desc_id"},
            {"packages", "option", "option_desc"}),
      Table("pkg_option_default", {"package_id", "option_id", "default_value"},
            {"packages", "option"})>>
ShlibTables ==
    <<Assoc("pkg_shlibs_required", "shlib_id", "shlibs"),
      Assoc("pkg_shlibs_provided", "shlib_id", "shlibs")>>
AnnotationTables ==
    <<Table("annotation", {"annotation_id", "annotation"}, {}),
      Table("pkg_annotation", {"package_id", "tag_id", "value_id"},
            {"packages", "annotation"})>>
ConflictTables ==
    <<Table("pkg_conflicts", {"package_id", "conflict_id"}, {"packages"}),
      Table("provides", {"id", "provide"}, {}),
      Assoc("pkg_provides", "provide_id", "provides")>>
Search == Table("pkg_search", {"id", "name", "origin"}, {})
Deps == Table("deps", {"origin", "name", "version", "package_id"}, {"packages"})
DepsUnique == UniqueIndex("deps_unique", "deps", {"origin", "version", "package_id"})
PackagesUnique == UniqueIndex("packages_unique", "packages", {"origin", "name"})

(***************************************************************************)
(* pkgdb_init.                                                             *)
(***************************************************************************)
InitTables ==
    <<<<Packages({"locked", "licenselogic", "time", "manifestdigest"}), PackagesUnique,
        Table("mtree", {"id", "content"}, {})>>,
      ScriptTables, OptionTables,
      <<Deps, DepsUnique,
        Table("files", {"path", "sha256", "package_id"}, {"packages"}),
        Table("directories", {"id", "path"}, {}),
        Table("pkg_directories", {"package_id", "directory_id", "try"},
              {"packages", "directories"}),
        Named("categories"), Assoc("pkg_categories", "category_id", "categories"),
        Named("licenses"), Assoc("pkg_licenses", "license_id", "licenses"),
        Named("users"), Assoc("pkg_users", "user_id", "users"),
        Named("groups"), Assoc("pkg_groups", "group_id", "groups"),
        Named("shlibs")>>,
      ShlibTables, AnnotationTables, ConflictTables,
      <<Table("pkg_lock", {"exclusive", "advisory", "read"}, {}),
        Table("pkg_lock_pid", {"pid"}, {}), Search>>>>

InitIndexes ==
    <<Index("deporigini", "deps", {"origin"}),
      PackageIndex("pkg_script_package_id", "pkg_script"),
      PackageIndex("deps_package_id", "deps"),
      PackageIndex("files_package_id", "files"),
      PackageIndex("pkg_directories_package_id", "pkg_directories"),
      PackageIndex("pkg_categories_package_id", "pkg_categories"),
      PackageIndex("pkg_licenses_package_id", "pkg_licenses"),
      PackageIndex("pkg_users_package_id", "pkg_users"),
      PackageIndex("pkg_groups_package_id", "pkg_groups"),
      PackageIndex("pkg_shlibs_required_package_id", "pkg_shlibs_required"),
      PackageIndex("pkg_shlibs_provided_package_id", "pkg_shlibs_provided"),
      Index("pkg_directories_directory_id", "pkg_directories", {"directory_id"}),
      PackageIndex("pkg_annotation_package_id", "pkg_annotation"),
      Index("pkg_digest_id", "packages", {"origin", "manifestdigest"}),
      PackageIndex("pkg_conflicts_pid", "pkg_conflicts"),
      Index("pkg_conflicts_cid", "pkg_conflicts", {"conflict_id"}),
      PackageIndex("pkg_provides_id", "pkg_provides"),
      Index("packages_origin", "packages", {"origin"}),
      Index("packages_name", "packages", {"name"})>>

pkgdb_init == InitTables \o <<InitIndexes, ShlibsView, ScriptsView, OptionsView>>

Created(db) == [Parts(db, pkgdb_init, FALSE) EXCEPT !.version = DBVERSION]
NewDatabase == Created(NoDatabase)

(***************************************************************************)
(* db_upgrades.                                                            *)
(***************************************************************************)
ToLicenses ==
    <<Table("licenses", {"id", "license"}, {}),
      Assoc("pkg_licenses_assoc", "license_id", "licenses"),
      View("pkg_licenses"), Trigger("license_insert", "pkg_licenses")>>

ToLicenseNames ==
    <<DropView("pkg_licenses"), DropTrigger("license_insert"),
      Rename("licenses", "todelete"), Named("licenses"),
      Copy("licenses", [id |-> "id", name |-> "license"], {"todelete"}),
      View("pkg_licenses"), Trigger("license_insert", "pkg_licenses"),
      DropView("pkg_mtree"), View("pkg_mtree"),
      DropTrigger("pkg_insert"), Trigger("pkg_insert", "pkg_mtree"),
      DropTable("todelete")>>

ToPlainTables ==
    <<DropView("pkg_mtree"), DropTrigger("CLEAN_MTREE"), DropTrigger("pkg_insert"),
      DropView("pkg_dirs"), DropTrigger("dir_insert"),
      Rename("pkg_dirs_assoc", "pkg_directories"),
      DropView("pkg_categories"), DropTrigger("category_insert"),
      Rename("pkg_categories_assoc", "pkg_categories"),
      DropView("pkg_licenses"), DropTrigger("licenses_insert"),
      Rename("pkg_licenses_assoc", "pkg_licenses")>>

ToUsers ==
    <<Named("users"), Assoc("pkg_users", "user_id", "users"),
      Named("groups"), Assoc("pkg_groups", "group_id", "groups")>>

ToArch ==
    <<Rename("packages", "oldpkgs"), Overwrite("oldpkgs", "arch"),
      Packages({"licenselogic"}),
      Copy("packages", Same(Basic \cup {"licenselogic"}), {"oldpkgs"}),
      DropTable("oldpkgs")>>

ToInfos ==
    Rebuild(Packages({"licenselogic", "infos", "time"}), "oldpkgs",
            Basic \cup {"licenselogic", "time"}, << >>)

ToIndexes ==
    <<PackageIndex("scripts_package_id", "scripts"),
      PackageIndex("options_package_id", "options"),
      PackageIndex("deps_package_id", "deps"),
      PackageIndex("files_package_id", "files"),
      PackageIndex("pkg_directories_package_id", "pkg_directories"),
      PackageIndex("pkg_categories_package_id", "pkg_categories"),
      PackageIndex("pkg_licenses_package_id", "pkg_licenses"),
      PackageIndex("pkg_users_package_id", "pkg_users"),
      PackageIndex("pkg_groups_package_id", "pkg_groups"),
      PackageIndex("pkg_shlibs_package_id", "pkg_shlibs"),
      Index("pkg_directories_directory_id", "pkg_directories", {"directory_id"})>>

ToLocked ==
    Rebuild(Packages({"locked", "licenselogic", "infos", "time"}), "oldpkgs",
            Basic \cup {"licenselogic", "time"}, << >>)

ToShlibs ==
    ShlibTables \o
    <<Copy("pkg_shlibs_required", Same({"package_id", "shlib_id"}), {"pkg_shlibs"}),
      PackageIndex("pkg_shlibs_required_package_id", "pkg_shlibs_required"),
      PackageIndex("pkg_shlibs_provided_package_id", "pkg_shlibs_provided"),
      DropIndex("pkg_shlibs_package_id"), DropTable("pkg_shlibs")>>

ToAbstract ==
    <<Table("abstract", {"abstract_id", "abstract"}, {}),
      Table("pkg_abstract", {"package_id", "key_id", "value_id"}, {"packages", "abstract"}),
      PackageIndex("pkg_abstract_package_id", "pkg_abstract")>>

ToDigest ==
    <<AddColumn("packages", "manifestdigest"),
      SoftIndex("pkg_digest_id", "packages", {"origin", "manifestdigest"})>>

ToAnnotations ==
    AnnotationTables \o
    <<PackageIndex("pkg_annotation_package_id", "pkg_annotation"),
      Copy("annotation", [annotation_id |-> "abstract_id", annotation |-> "abstract"],
           {"abstract"}),
      Copy("pkg_annotation",
           [package_id |-> "package_id", tag_id |-> "key_id", value_id |-> "value_id"],
           {"pkg_abstract"}),
      DropIndex("pkg_abstract_package_id"), DropTable("pkg_abstract"), DropTable("abstract")>>

ToInfosMoved ==
    <<Copy("annotation", [annotation |-> "infos"], {"packages"}),
      Copy("pkg_annotation", [package_id |-> "id"], {"packages"})>> \o
    Rebuild(Packages({"locked", "licenselogic", "time", "manifestdigest"}), "oldpkgs",
            Basic \cup {"locked", "licenselogic", "time", "manifestdigest"}, << >>)

ToScripts ==
    ScriptTables \o
    <<Copy("script", [script |-> "script"], {"scripts"}),
      Copy("pkg_script", Same({"package_id", "type", "script_id"}), {"script", "scripts"}),
      PackageIndex("pkg_script_package_id", "pkg_script"),
      DropTable("scripts")>> \o ScriptsView

ToOptions ==
    OptionTables \o
    <<Copy("option", [option |-> "option"], {"options"}),
      Copy("pkg_option", Same({"package_id", "option_id", "value"}), {"options", "option"}),
      DropTable("options")>> \o OptionsView

ToSearch ==
    <<Search, Copy("pkg_search", Same({"id", "name", "origin"}), {"packages"}),
      Index("packages_origin", "packages", {"origin"}),
      Index("packages_name", "packages", {"name"})>>

ToLock ==
    <<SoftTable("pkg_lock", {"exclusive", "advisory", "read"}),
      SoftTable("pkg_lock_pid", {"pid"}),
      Clear("pkg_lock", {"exclusive", "advisory", "read"}), Clear("pkg_lock_pid", {"pid"})>>

ToUniqueIndexes ==
    Rebuild(Packages({"locked", "licenselogic", "infos", "time"}), "oldpkgs",
            Basic \cup {"licenselogic", "time"}, <<PackagesUnique>>) \o
    Rebuild(Deps, "olddeps", {"origin", "name", "version", "package_id"}, <<DepsUnique>>)

ToMoreIndexes ==
    <<SoftIndex("packages_origin", "packages", {"origin"}),
      SoftIndex("packages_name", "packages", {"name"}),
      SoftIndex("packages_uid_nocase", "packages", {"name", "origin"}),
      SoftIndex("packages_version_nocase", "packages", {"name", "version"}),
      SoftIndex("packages_uid", "packages", {"name", "origin"}),
      SoftIndex("packages_version", "packages", {"name", "version"})>>

db_upgrades ==
    <<ToLicenses, <<AddColumn("packages", "licenselogic")>>, ToLicenseNames, ToPlainTables,
      ToUsers, <<AddColumn("pkg_directories", "try")>>,
      <<Index("deporigini", "deps", {"origin"})>>, <<DropTable("conflicts")>>,
      <<Named("shlibs"), Assoc("pkg_shlibs", "shlib_id", "shlibs")>>,
      ToArch, ToInfos, ToIndexes, ToLocked, ToShlibs, ToAbstract, ToDigest, ToAnnotations,
      ShlibsView, ToInfosMoved, ToScripts, ToOptions, ConflictTables, ToSearch, ToLock,
      ToUniqueIndexes, ToDigest, ToMoreIndexes>>

\* One turn of the loop of pkgdb_upgrade: the script that leads to version v
\* and the new user_version, in one transaction.
Upgraded(db, v, fk) ==
    LET after == Script(db, db_upgrades[v], fk)
    IN  IF after.ok THEN [after EXCEPT !.version = v] ELSE Failed(db)

\* The loop from user_version on.
UpgradedTo(db, v) ==
    FoldLeft(LAMBDA d, w : IF d.ok THEN Upgraded(d, w, FALSE) ELSE d, db,
             [i \in 1..(v - db.version) |-> db.version + i])

(***************************************************************************)
(* Databases made by earlier versions of libpkg, as far as the scripts     *)
(* tell: the first schema, and the one of version 10 (whose packages table *)
(* script 10 creates).  Versions 11 to 26 are what the scripts make of it  *)
(* once it has the column "time" that script 11 reads.                     *)
(***************************************************************************)
Schema0 ==
    Script(NoDatabase,
        <<Packages({"osversion"}), Table("mtree", {"id", "content"}, {}),
          View("pkg_mtree"), Trigger("pkg_insert", "pkg_mtree"),
          Trigger("CLEAN_MTREE", "packages"),
          Table("scripts", {"package_id", "script", "type"}, {"packages"}),
          Table("options", {"package_id", "option", "value"}, {"packages"}), Deps,
          Table("files", {"path", "sha256", "package_id"}, {"packages"}),
          Table("directories", {"id", "path"}, {}),
          Assoc("pkg_dirs_assoc", "directory_id", "directories"),
          View("pkg_dirs"), Trigger("dir_insert", "pkg_dirs"),
          Named("categories"), Assoc("pkg_categories_assoc", "category_id", "categories"),
          View("pkg_categories"), Trigger("category_insert", "pkg_categories"),
          Table("conflicts", {"name", "package_id"}, {"packages"})>>, FALSE)

Schema10(cols) ==
    [Script(NoDatabase,
        <<Packages({"licenselogic"} \cup cols), Table("mtree", {"id", "content"}, {}),
          Table("scripts", {"package_id", "script", "type"}, {"packages"}),
          Table("options", {"package_id", "option", "value"}, {"packages"}), Deps,
          Table("files", {"path", "sha256", "package_id"}, {"packages"}),
          Table("directories", {"id", "path"}, {}),
          Table("pkg_directories", {"package_id", "directory_id", "try"},
                {"packages", "directories"}),
          Named("categories"), Assoc("pkg_categories", "category_id", "categories"),
          Named("licenses"), Assoc("pkg_licenses", "license_id", "licenses"),
          Named("users"), Assoc("pkg_users", "user_id", "users"),
          Named("groups"), Assoc("pkg_groups", "group_id", "groups"),
          Named("shlibs"), Assoc("pkg_shlibs", "shlib_id", "shlibs"),
          Index("deporigini", "deps", {"origin"})>>, FALSE)
     EXCEPT !.version = 10]

Made(v) ==
    Filled(CASE v = 0 -> Schema0
             [] v = 10 -> Schema10({})
             [] v \in 11..26 -> UpgradedTo(Schema10({"time"}), v)
             [] OTHER -> [NewDatabase EXCEPT !.version = v])

(***************************************************************************)
(* sql_prepared_statements: the columns the statements of an open database *)
(* name.  A statement that names a missing one cannot be prepared.         *)
(***************************************************************************)
Statements ==
    {<<"mtree", {"id", "content"}>>,
     <<"packages", (Basic \ {"pkg_format_version"}) \cup {"licenselogic", "time", "manifestdigest"}>>,
     <<"deps", {"origin", "name", "version", "package_id"}>>,
     <<"files", {"path", "sha256", "package_id"}>>,
     <<"directories", {"id", "path"}>>,
     <<"pkg_directories", {"package_id", "directory_id", "try"}>>,
     <<"categories", {"id", "name"}>>, <<"pkg_categories", {"package_id", "category_id"}>>,
     <<"licenses", {"id", "name"}>>, <<"pkg_licenses", {"package_id", "license_id"}>>,
     <<"users", {"id", "name"}>>, <<"pkg_users", {"package_id", "user_id"}>>,
     <<"groups", {"id", "name"}>>, <<"pkg_groups", {"package_id", "group_id"}>>,
     <<"script", {"script_id", "script"}>>,
     <<"pkg_script", {"package_id", "type", "script_id"}>>,
     <<"option", {"option_id", "option"}>>,
     <<"pkg_option", {"package_id", "option_id", "value"}>>,
     <<"shlibs", {"id", "name"}>>, <<"pkg_shlibs_required", {"package_id", "shlib_id"}>>,
     <<"pkg_shlibs_provided", {"package_id", "shlib_id"}>>,
     <<"annotation", {"annotation_id", "annotation"}>>,
     <<"pkg_annotation", {"package_id", "tag_id", "value_id"}>>,
     <<"pkg_conflicts", {"package_id", "conflict_id"}>>,
     <<"provides", {"id", "provide"}>>, <<"pkg_provides", {"package_id", "provide_id"}>>,
     <<"pkg_search", {"id", "name", "origin"}>>}

Prepared(db) ==
    \A s \in Statements : ({s[1]} \X s[2]) \subseteq db.cols

=============================================================================
