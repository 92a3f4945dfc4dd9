--------------------------- MODULE PassportElements ---------------------------
(***************************************************************************)
(* Elements of Telegram Passport and the errors a bot reports about them:  *)
(* tgbot/src/types/passport/element.rs and error.rs. The two files agree   *)
(* only by hand: one says which kind of element has which fields, the      *)
(* other, per constructor, which kinds an error can be about.              *)
(***************************************************************************)
EXTENDS FiniteSets

Element(required, optional) == [required |-> required, optional |-> optional]

\* Fields of an element; every element also has a hash.
EncryptedPassportElementAddress ==
  Element({"data"}, {})
EncryptedPassportElementBankStatement ==
  Element({"files"}, {"translation"})
EncryptedPassportElementDriverLicense ==
  Element({"data", "front_side", "reverse_side", "selfie"}, {"translation"})
EncryptedPassportElementEmail ==
  Element({"email"}, {})
EncryptedPassportElementIdentityCard ==
  Element({"data", "front_side", "reverse_side", "selfie"}, {"translation"})
EncryptedPassportElementInternalPassport ==
  Element({"data", "front_side", "selfie"}, {"translation"})
EncryptedPassportElementPassport ==
  Element({"data", "front_side", "selfie"}, {"translation"})
EncryptedPassportElementPassportRegistration ==
  Element({"files"}, {"translation"})
EncryptedPassportElementPersonalDetails ==
  Element({"data"}, {})
EncryptedPassportElementPhoneNumber ==
  Element({"phone_number"}, {})
EncryptedPassportElementRentalAgreement ==
  Element({"files"}, {"translation"})
EncryptedPassportElementTemporaryRegistration ==
  Element({"files"}, {"translation"})
EncryptedPassportElementUtilityBill ==
  Element({"files"}, {"translation"})

EncryptedPassportElement ==
  [Address               |-> EncryptedPassportElementAddress,
   BankStatement         |-> EncryptedPassportElementBankStatement,
   DriverLicense         |-> EncryptedPassportElementDriverLicense,
   Email                 |-> EncryptedPassportElementEmail,
   IdentityCard          |-> EncryptedPassportElementIdentityCard,
   InternalPassport      |-> EncryptedPassportElementInternalPassport,
   Passport              |-> EncryptedPassportElementPassport,
   PassportRegistration  |-> EncryptedPassportElementPassportRegistration,
   PersonalDetails       |-> EncryptedPassportElementPersonalDetails,
   PhoneNumber           |-> EncryptedPassportElementPhoneNumber,
   RentalAgreement       |-> EncryptedPassportElementRentalAgreement,
   TemporaryRegistration |-> EncryptedPassportElementTemporaryRegistration,
   UtilityBill           |-> EncryptedPassportElementUtilityBill]

EncryptedPassportElementKind == DOMAIN EncryptedPassportElement

FieldsOf(kind) ==
  LET variant == EncryptedPassportElement[kind]
  IN  {"hash"} \cup variant.required \cup variant.optional

ElementFields ==
  UNION {FieldsOf(kind) : kind \in EncryptedPassportElementKind}

\* The fields that an element is made of, none when a required one is missing.
\* What its kind does not have is dropped.
Parsed(kind, fields) ==
  IF {"hash"} \cup EncryptedPassportElement[kind].required \subseteq fields
  THEN {fields \cap FieldsOf(kind)}
  ELSE {}

-----------------------------------------------------------------------------
(* The kinds each constructor of PassportElementError accepts.             *)

Documents == {"DriverLicense", "IdentityCard", "InternalPassport", "Passport"}

Papers ==
  {"BankStatement", "PassportRegistration", "RentalAgreement",
   "TemporaryRegistration", "UtilityBill"}

data_field        == Documents \cup {"Address", "PersonalDetails"}
front_side        == Documents
reverse_side_of_documents == Documents
reverse_side      == {"DriverLicense", "IdentityCard"}
selfie            == Documents
file              == Papers
files             == Papers
translation_file  == Documents \cup Papers
translation_files == Documents \cup Papers
unspecified       == EncryptedPassportElementKind

\* Constructors with the field of an element that their error is about.
PassportElementError ==
  {[source |-> "data",              field |-> "data",         kinds |-> data_field],
   [source |-> "front_side",        field |-> "front_side",   kinds |-> front_side],
   [source |-> "reverse_side",      field |-> "reverse_side", kinds |-> reverse_side],
   [source |-> "selfie",            field |-> "selfie",       kinds |-> selfie],
   [source |-> "file",              field |-> "files",        kinds |-> file],
   [source |-> "files",             field |-> "files",        kinds |-> files],
   [source |-> "translation_file",  field |-> "translation",  kinds |-> translation_file],
   [source |-> "translation_files", field |-> "translation",  kinds |-> translation_files],
   [source |-> "unspecified",       field |-> "hash",         kinds |-> unspecified]}
=============================================================================
