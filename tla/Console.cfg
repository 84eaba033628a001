SPECIFICATION Spec
CONSTANTS
    CONFIG_CONSOLE_INPUT_LINE_SIZE = 3
    CONFIG_CONSOLE_HISTORY = 3
    Glyphs = {"x", "y"}
INVARIANT TypeOK
PROPERTY EditorSpec
