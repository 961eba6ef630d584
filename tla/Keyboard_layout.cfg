SPECIFICATION Spec
CONSTANTS
    Hosts <- MCFrenchHosts
    NoText = NoText
    MaxEvents = 4
PROPERTIES
    LettersByLayout
